---------------------------- MODULE Spec2Model ----------------------------
(***************************************************************************)
(* A model of the agent runner (internal/agent/runner.go), its executor    *)
(* (unnamed/part_001), the task breakdown (internal/agent/openai_client.go)*)
(* and the retrieval result merger (internal/retrieval/merger.go).         *)
(*                                                                         *)
(* Go strings are modelled as sequences of one-character strings, so that  *)
(* strings.HasPrefix, strings.Contains, strings.Replace and filepath.Clean *)
(* are computed character by character as the library computes them.      *)
(***************************************************************************)
EXTENDS Integers, Sequences, FiniteSets, TLC

(***************************************************************************)
(* Bounds of the model.                                                    *)
(***************************************************************************)
\* Largest positive value of RunOptions.MaxIterations the runs are given.
MaxIterOpt == 2
\* Longest LLM plan response, in lines.
MaxLines == 2

(***************************************************************************)
(* strings package                                                         *)
(***************************************************************************)
HasPrefix(s, prefix) ==
    /\ Len(prefix) <= Len(s)
    /\ SubSeq(s, 1, Len(prefix)) = prefix

\* The offsets (0-based, as in Go) at which substr occurs in s.
Occurrences(s, substr) ==
    {i \in 0..(Len(s) - Len(substr)) : SubSeq(s, i + 1, i + Len(substr)) = substr}

Contains(s, substr) == Occurrences(s, substr) # {}

IsSpace(c) == c \in {" ", "\t", "\n", "\r"}

\* strings.TrimSpace
TrimSpace(s) ==
    IF \A k \in 1..Len(s) : IsSpace(s[k]) THEN <<>>
    ELSE SubSeq(s, CHOOSE k \in 1..Len(s) : ~IsSpace(s[k]) /\ \A j \in 1..(k - 1) : IsSpace(s[j]),
                   CHOOSE k \in 1..Len(s) :
                       ~IsSpace(s[k]) /\ \A j \in (k + 1)..Len(s) : IsSpace(s[j]))

Digits == <<"0", "1", "2", "3", "4", "5", "6", "7", "8", "9">>
IsDigit(c) == \E k \in 1..Len(Digits) : Digits[k] = c

SetMin(S) == CHOOSE x \in S : \A y \in S : x <= y

\* strings.Replace(s, old, new, 1): the first occurrence only; s itself when
\* old does not occur.  An empty old matches at offset 0.
ReplaceFirst(s, old, new) ==
    IF ~Contains(s, old) THEN s
    ELSE LET i == SetMin(Occurrences(s, old))
         IN  SubSeq(s, 1, i) \o new \o SubSeq(s, i + Len(old) + 1, Len(s))

(***************************************************************************)
(* path/filepath package (Unix)                                            *)
(***************************************************************************)
IsAbs(path) == Len(path) > 0 /\ path[1] = "/"

\* The elements of path between separators (empty elements included).
RECURSIVE SplitPath(_)
SplitPath(path) ==
    IF ~Contains(path, <<"/">>) THEN <<path>>
    ELSE LET i == SetMin(Occurrences(path, <<"/">>))
         IN  <<SubSeq(path, 1, i)>> \o SplitPath(SubSeq(path, i + 2, Len(path)))

\* filepath.Clean's element pass: "." and empty elements are dropped, ".."
\* removes the element before it, is dropped at the root of a rooted path
\* and is kept at the front of a relative one.
RECURSIVE CleanElems(_, _, _)
CleanElems(elems, out, rooted) ==
    IF elems = <<>> THEN out
    ELSE LET e == Head(elems)
             rest == Tail(elems)
         IN  IF e = <<>> \/ e = <<".">> THEN CleanElems(rest, out, rooted)
             ELSE IF e = <<".", ".">> THEN
                  IF out # <<>> /\ out[Len(out)] # <<".", ".">>
                  THEN CleanElems(rest, SubSeq(out, 1, Len(out) - 1), rooted)
                  ELSE IF rooted THEN CleanElems(rest, out, rooted)
                  ELSE CleanElems(rest, Append(out, e), rooted)
             ELSE CleanElems(rest, Append(out, e), rooted)

RECURSIVE JoinElems(_)
JoinElems(elems) ==
    IF elems = <<>> THEN <<>>
    ELSE IF Len(elems) = 1 THEN elems[1]
    ELSE elems[1] \o <<"/">> \o JoinElems(Tail(elems))

Clean(path) ==
    LET rooted == IsAbs(path)
        body == JoinElems(CleanElems(SplitPath(path), <<>>, rooted))
    IN  IF rooted THEN <<"/">> \o body
        ELSE IF body = <<>> THEN <<".">>
        ELSE body

\* filepath.Join(a, b): empty elements are ignored, the rest is joined with
\* the separator and cleaned.
Join(a, b) ==
    IF a = <<>> /\ b = <<>> THEN <<>>
    ELSE IF a = <<>> THEN Clean(b)
    ELSE IF b = <<>> THEN Clean(a)
    ELSE Clean(a \o <<"/">> \o b)

\* filepath.Dir of a path.
Dir(path) ==
    LET seps == Occurrences(path, <<"/">>)
    IN  IF seps = {} THEN <<".">>
        ELSE Clean(SubSeq(path, 1, (CHOOSE i \in seps : \A j \in seps : j <= i) + 1))


(***************************************************************************)
(* The file system and the executor (unnamed/part_001)                     *)
(***************************************************************************)
\* The project root the agent is constructed with, "/p".
projectRoot == <<"/", "p">>

\* NewExecutor's default blocklist (Run passes none of its own).
DefaultBlocklist ==
    { <<".", "e", "n", "v">>,
      <<"i", "d", "_", "r", "s", "a">>,
      <<"i", "d", "_", "d", "s", "a">>,
      <<"s", "e", "c", "r", "e", "t", "s">>,
      <<"c", "o", "n", "f", "i", "g", ".", "y", "m", "l">>,
      <<"c", "o", "n", "f", "i", "g", ".", "y", "a", "m", "l">> }

NewExecutor(root, dry) ==
    [projectRoot |-> root, dryRun |-> dry, blocklist |-> DefaultBlocklist]

ActionReadFile == "read_file"
ActionEditFile == "edit_file"
ActionCreateFile == "create_file"
ActionDeleteFile == "delete_file"
ActionRunCommand == "run_command"
ActionSearch == "search"
ActionAskUser == "ask_user"
ActionComplete == "complete"
ActionFail == "fail"

\* Executor.abs
Abs(e, path) == IF IsAbs(path) THEN path ELSE Join(e.projectRoot, path)

\* Executor.checkPath: the error it returns, <<>> for nil.
checkPath(e, path) ==
    LET abs == Abs(e, path)
    IN  IF ~HasPrefix(abs, Clean(e.projectRoot))
        THEN <<"path ">> \o path \o <<" escapes project root">>
        ELSE IF \E blocked \in e.blocklist : Contains(abs, blocked)
        THEN <<"path ">> \o path \o <<" is blocked">>
        ELSE <<>>

\* The file an absolute path names to the operating system: the kernel
\* resolves "." and ".." elements (the model has no symbolic links).
Resolve(abs) == Clean(abs)

\* A file system is a function from the resolved paths of its regular files
\* to their contents.
IsFile(files, abs) == Resolve(abs) \in DOMAIN files

\* abs names a directory: the root, the project root, or a proper ancestor
\* of a regular file.
IsDir(files, abs) ==
    LET r == Resolve(abs)
    IN  \/ r = <<"/">>
        \/ r = Clean(projectRoot)
        \/ \E f \in DOMAIN files : HasPrefix(f, r \o <<"/">>)

\* Some proper ancestor of abs is a regular file (ENOTDIR for every call).
UnderFile(files, abs) ==
    \E f \in DOMAIN files : HasPrefix(Resolve(abs), f \o <<"/">>)

NoSuchFile(op, abs) == <<op>> \o abs \o <<": no such file or directory">>
NotADirectory(op, abs) == <<op>> \o abs \o <<": not a directory">>
IsADirectory(op, abs) == <<op>> \o abs \o <<": is a directory">>

\* os.ReadFile: [err, data]
ReadFile(files, abs) ==
    IF UnderFile(files, abs) THEN [err |-> NotADirectory("open ", abs), data |-> <<>>]
    ELSE IF IsDir(files, abs) THEN [err |-> IsADirectory("read ", abs), data |-> <<>>]
    ELSE IF ~IsFile(files, abs) THEN [err |-> NoSuchFile("open ", abs), data |-> <<>>]
    ELSE [err |-> <<>>, data |-> files[Resolve(abs)]]

\* os.MkdirAll(filepath.Dir(abs)): fails when the directory or one of its
\* ancestors is a regular file; the model keeps no empty directories.
MkdirAllErr(files, abs) ==
    IF UnderFile(files, abs) THEN NotADirectory("mkdir ", Dir(abs)) ELSE <<>>

\* os.WriteFile: [err, files]
WriteFile(files, abs, data) ==
    IF UnderFile(files, abs) THEN [err |-> NotADirectory("open ", abs), files |-> files]
    ELSE IF IsDir(files, abs) THEN [err |-> IsADirectory("open ", abs), files |-> files]
    ELSE [err |-> <<>>,
          files |-> [f \in DOMAIN files \cup {Resolve(abs)} |->
                        IF f = Resolve(abs) THEN data ELSE files[f]]]

\* os.Remove: [err, files]
Remove(files, abs) ==
    IF ~IsFile(files, abs) THEN [err |-> NoSuchFile("remove ", abs), files |-> files]
    ELSE [err |-> <<>>,
          files |-> [f \in DOMAIN files \ {Resolve(abs)} |-> files[f]]]

\* Executor.result
Result(success, output, err, changed) ==
    [Success |-> success, Output |-> output, Error |-> err, FilesChanged |-> changed]

\* What one Execute call does: the ActionResult, the file system after it
\* and the number of processes it spawned.
Outcome(res, files, procs) == [res |-> res, fs |-> files, spawned |-> procs]

\* Mutant of ApplyEdits: an old_text that does not occur is passed over.
RECURSIVE ApplyEditsLenient(_, _, _)
ApplyEditsLenient(content, edits, path) ==
    IF edits = <<>> THEN [err |-> <<>>, content |-> content]
    ELSE ApplyEditsLenient(ReplaceFirst(content, Head(edits).OldText, Head(edits).NewText),
                           Tail(edits), path)

\* The edit loop of ActionEditFile: [err, content]
RECURSIVE ApplyEdits(_, _, _)
ApplyEdits(content, edits, path) ==
    IF edits = <<>> THEN [err |-> <<>>, content |-> content]
    ELSE IF ~Contains(content, Head(edits).OldText)
    THEN [err |-> <<"old_text not found", " in ">> \o path, content |-> content]
    ELSE ApplyEdits(ReplaceFirst(content, Head(edits).OldText, Head(edits).NewText),
                    Tail(edits), path)

ExecReadFile(e, files, action) ==
    LET rd == ReadFile(files, Abs(e, action.Path))
    IN  IF rd.err # <<>> THEN Outcome(Result(FALSE, <<>>, rd.err, <<>>), files, 0)
        ELSE Outcome(Result(TRUE, rd.data, <<>>, <<>>), files, 0)

\* Mutant of ExecCreateFile: the dry-run test is left out.
ExecCreateFileAlways(e, files, action) ==
    LET perr == checkPath(e, action.Path)
        abs == Abs(e, action.Path)
        wr == WriteFile(files, abs, action.Content)
    IN  IF perr # <<>> THEN Outcome(Result(FALSE, <<>>, perr, <<>>), files, 0)
        ELSE IF wr.err # <<>> THEN Outcome(Result(FALSE, <<>>, wr.err, <<>>), files, 0)
        ELSE Outcome(Result(TRUE, <<"created ">> \o action.Path, <<>>, <<action.Path>>), wr.files, 0)

ExecCreateFile(e, files, action) ==
    LET perr == checkPath(e, action.Path)
        abs == Abs(e, action.Path)
        mk == MkdirAllErr(files, abs)
        wr == WriteFile(files, abs, action.Content)
    IN  IF perr # <<>> THEN Outcome(Result(FALSE, <<>>, perr, <<>>), files, 0)
        ELSE IF e.dryRun
        THEN Outcome(Result(TRUE, <<"[dry-run] would create ">> \o action.Path, <<>>, <<>>), files, 0)
        ELSE IF mk # <<>> THEN Outcome(Result(FALSE, <<>>, mk, <<>>), files, 0)
        ELSE IF wr.err # <<>> THEN Outcome(Result(FALSE, <<>>, wr.err, <<>>), files, 0)
        ELSE Outcome(Result(TRUE, <<"created ">> \o action.Path, <<>>, <<action.Path>>), wr.files, 0)

\* Mutant of ExecEditFile: the content is written as far as the edits went
\* when an old_text is not found.
ExecEditFilePartial(e, files, action) ==
    LET perr == checkPath(e, action.Path)
        abs == Abs(e, action.Path)
        rd == ReadFile(files, abs)
        ed == ApplyEdits(rd.data, action.Edits, action.Path)
        wr == WriteFile(files, abs, ed.content)
    IN  IF perr # <<>> THEN Outcome(Result(FALSE, <<>>, perr, <<>>), files, 0)
        ELSE IF Len(action.Edits) = 0
        THEN Outcome(Result(FALSE, <<>>, <<"no edits provided">>, <<>>), files, 0)
        ELSE IF rd.err # <<>> THEN Outcome(Result(FALSE, <<>>, rd.err, <<>>), files, 0)
        ELSE IF ed.err # <<>> THEN Outcome(Result(FALSE, <<>>, ed.err, <<>>), wr.files, 0)
        ELSE IF e.dryRun
        THEN Outcome(Result(TRUE, <<"[dry-run] would edit ">> \o action.Path, <<>>, <<>>), files, 0)
        ELSE IF wr.err # <<>> THEN Outcome(Result(FALSE, <<>>, wr.err, <<>>), files, 0)
        ELSE Outcome(Result(TRUE, <<"edited ">> \o action.Path, <<>>, <<action.Path>>), wr.files, 0)

ExecEditFile(e, files, action) ==
    LET perr == checkPath(e, action.Path)
        abs == Abs(e, action.Path)
        rd == ReadFile(files, abs)
        ed == ApplyEdits(rd.data, action.Edits, action.Path)
        wr == WriteFile(files, abs, ed.content)
    IN  IF perr # <<>> THEN Outcome(Result(FALSE, <<>>, perr, <<>>), files, 0)
        ELSE IF Len(action.Edits) = 0
        THEN Outcome(Result(FALSE, <<>>, <<"no edits provided">>, <<>>), files, 0)
        ELSE IF rd.err # <<>> THEN Outcome(Result(FALSE, <<>>, rd.err, <<>>), files, 0)
        ELSE IF ed.err # <<>> THEN Outcome(Result(FALSE, <<>>, ed.err, <<>>), files, 0)
        ELSE IF e.dryRun
        THEN Outcome(Result(TRUE, <<"[dry-run] would edit ">> \o action.Path, <<>>, <<>>), files, 0)
        ELSE IF wr.err # <<>> THEN Outcome(Result(FALSE, <<>>, wr.err, <<>>), files, 0)
        ELSE Outcome(Result(TRUE, <<"edited ">> \o action.Path, <<>>, <<action.Path>>), wr.files, 0)

\* Mutant of ExecDeleteFile: the file is reported deleted and is kept.
ExecDeleteFileKeeps(e, files, action) ==
    LET perr == checkPath(e, action.Path)
        rm == Remove(files, Abs(e, action.Path))
    IN  IF perr # <<>> THEN Outcome(Result(FALSE, <<>>, perr, <<>>), files, 0)
        ELSE IF rm.err # <<>> THEN Outcome(Result(FALSE, <<>>, rm.err, <<>>), files, 0)
        ELSE Outcome(Result(TRUE, <<"deleted ">> \o action.Path, <<>>, <<action.Path>>), files, 0)

ExecDeleteFile(e, files, action) ==
    LET perr == checkPath(e, action.Path)
        rm == Remove(files, Abs(e, action.Path))
    IN  IF perr # <<>> THEN Outcome(Result(FALSE, <<>>, perr, <<>>), files, 0)
        ELSE IF e.dryRun
        THEN Outcome(Result(TRUE, <<"[dry-run] would delete ">> \o action.Path, <<>>, <<>>), files, 0)
        ELSE IF rm.err # <<>> THEN Outcome(Result(FALSE, <<>>, rm.err, <<>>), files, 0)
        ELSE Outcome(Result(TRUE, <<"deleted ">> \o action.Path, <<>>, <<action.Path>>), rm.files, 0)

\* exitOk is what the spawned command does: TRUE for exit status 0.
ExecRunCommand(e, files, action, exitOk) ==
    IF e.dryRun THEN Outcome(Result(TRUE, <<"[dry-run] would run">>, <<>>, <<>>), files, 0)
    ELSE IF ~exitOk THEN Outcome(Result(FALSE, <<"output">>, <<"exit status 1">>, <<>>), files, 1)
    ELSE Outcome(Result(TRUE, <<"output">>, <<>>, <<>>), files, 1)

\* Executor.Execute.  Run builds the executor with the index IndexProject
\* returned, so the search branch finds an index.
Execute(e, files, action, exitOk) ==
    CASE action.Type = ActionReadFile -> ExecReadFile(e, files, action)
      [] action.Type = ActionCreateFile -> ExecCreateFile(e, files, action)
      [] action.Type = ActionEditFile -> ExecEditFile(e, files, action)
      [] action.Type = ActionDeleteFile -> ExecDeleteFile(e, files, action)
      [] action.Type = ActionRunCommand -> ExecRunCommand(e, files, action, exitOk)
      [] action.Type = ActionSearch ->
            Outcome(Result(TRUE, <<"search results">>, <<>>, <<>>), files, 0)
      [] action.Type = ActionAskUser ->
            Outcome(Result(FALSE, <<"question">>, <<"user input required">>, <<>>), files, 0)
      [] action.Type = ActionComplete ->
            Outcome(Result(TRUE, <<"summary">>, <<>>, <<>>), files, 0)
      [] action.Type = ActionFail ->
            Outcome(Result(FALSE, <<>>, <<"reason">>, <<>>), files, 0)
      [] OTHER ->
            Outcome(Result(FALSE, <<>>, <<"unsupported action type: ", action.Type>>, <<>>), files, 0)

(***************************************************************************)
(* Tasks and the task breakdown (internal/agent/openai_client.go)          *)
(***************************************************************************)
TaskStatusPending == "pending"
TaskStatusInProgress == "in_progress"
TaskStatusCompleted == "completed"
TaskStatusBlocked == "blocked"

Task(id, description, status) ==
    [ID |-> id, Description |-> description, Status |-> status, Details |-> <<>>]

\* The number of tasks of a list in one status.
RECURSIVE CountStatus(_, _)
CountStatus(tasks, status) ==
    IF tasks = <<>> THEN 0
    ELSE (IF Head(tasks).Status = status THEN 1 ELSE 0) + CountStatus(Tail(tasks), status)

\* TaskBreakdown.UpdateStats: the three counters the struct has are
\* recomputed; TotalTasks is left as it is.
UpdateStats(tb) ==
    [tb EXCEPT !.Completed = CountStatus(tb.Tasks, TaskStatusCompleted),
               !.InProgress = CountStatus(tb.Tasks, TaskStatusInProgress),
               !.Pending = CountStatus(tb.Tasks, TaskStatusPending)]

\* TaskBreakdown.UpdateTaskStatus: the first task with the id; an unknown id
\* is an error that Run discards, and the breakdown is unchanged.
UpdateTaskStatus(tb, taskID, status) ==
    LET hits == {k \in 1..Len(tb.Tasks) : tb.Tasks[k].ID = taskID}
    IN  IF hits = {} THEN tb
        ELSE UpdateStats([tb EXCEPT !.Tasks[SetMin(hits)].Status = status])

\* The characters of the patterns that are not ASCII, by their code points:
\* ballot box, ballot box with check, check mark, ballot x, bullet.
BallotBox == "U+2610"
BallotBoxWithCheck == "U+2611"
CheckMark == "U+2713"
BallotX == "U+2717"
Bullet == "U+2022"

\* The characters of checkboxPattern's class: the four marks, [, ], x, \s, -.
CheckboxClass ==
    {BallotBox, BallotBoxWithCheck, CheckMark, BallotX, "[", "]", "x", "-", " ", "\t", "\n", "\r"}
BulletClass == {"-", "*", Bullet}
\* The characters of \s.
WhiteSpace == {" ", "\t", "\n", "\r"}

\* The length of the longest prefix of s, from position from, of characters of class.
Run(s, from, class) ==
    Cardinality({k \in from..Len(s) : \A j \in from..k : s[j] \in class})

\* FindStringSubmatch's answer: whether the pattern matched, and its group.
NoMatch == [ok |-> FALSE, group |-> <<>>]
Match(group) == [ok |-> TRUE, group |-> group]

\* The group (.+)$ after a greedy run that ends before position at and may
\* give back characters down to position least: it takes the rest of the
\* line, which has to hold one character.
Rest(s, at, least) ==
    IF at <= Len(s) THEN Match(SubSeq(s, at, Len(s)))
    ELSE IF least <= Len(s) THEN Match(SubSeq(s, Len(s), Len(s)))
    ELSE NoMatch

\* ^[\s]*[class]+\s*(.+)$ with the class above
checkboxPattern(s) ==
    LET n == Run(s, 1, CheckboxClass)
    IN  IF n = 0 THEN NoMatch ELSE Rest(s, n + 1, 2)

\* ^[\s]*\d+\.\s+(.+)$
numberedPattern(s) ==
    LET lead == Run(s, 1, WhiteSpace)
        d == Cardinality({k \in (lead + 1)..Len(s) : \A j \in (lead + 1)..k : IsDigit(s[j])})
        dot == lead + d + 1
        w == Run(s, dot + 1, WhiteSpace)
    IN  IF d = 0 \/ dot > Len(s) \/ s[dot] # "." \/ w = 0 THEN NoMatch
        ELSE Rest(s, dot + w + 1, dot + 2)

\* ^[\s]*[-*U+2022]\s+(.+)$
bulletPattern(s) ==
    LET lead == Run(s, 1, WhiteSpace)
        w == Run(s, lead + 2, WhiteSpace)
    IN  IF lead + 1 > Len(s) \/ s[lead + 1] \notin BulletClass \/ w = 0 THEN NoMatch
        ELSE Rest(s, lead + w + 2, lead + 3)

\* The first of the three patterns that matches the trimmed line.
FindTask(line) ==
    IF checkboxPattern(line).ok THEN checkboxPattern(line)
    ELSE IF numberedPattern(line).ok THEN numberedPattern(line)
    ELSE bulletPattern(line)

\* The status of a line: completed when it holds a ballot box with check, a
\* check mark or [x].
LineStatus(line) ==
    IF Contains(line, <<BallotBoxWithCheck>>) \/ Contains(line, <<CheckMark>>) \/ Contains(line, <<"[", "x", "]">>)
    THEN TaskStatusCompleted
    ELSE TaskStatusPending

\* Mutant of ParseLines: taskID counts every line that is not blank.
RECURSIVE ParseLinesCountsLines(_, _)
ParseLinesCountsLines(lines, taskID) ==
    IF lines = <<>> THEN <<>>
    ELSE LET line == TrimSpace(Head(lines))
             description == TrimSpace(FindTask(line).group)
         IN  IF line = <<>> THEN ParseLinesCountsLines(Tail(lines), taskID)
             ELSE IF ~FindTask(line).ok \/ description = <<>>
                  THEN ParseLinesCountsLines(Tail(lines), taskID + 1)
             ELSE <<Task(taskID, description, LineStatus(line))>>
                  \o ParseLinesCountsLines(Tail(lines), taskID + 1)

\* The loop of ParseTasksFromLLM over the lines of the response, from the
\* line at the head on, with taskID the next id.
RECURSIVE ParseLines(_, _)
ParseLines(lines, taskID) ==
    IF lines = <<>> THEN <<>>
    ELSE LET line == TrimSpace(Head(lines))
             description == TrimSpace(FindTask(line).group)
         IN  IF line = <<>> \/ ~FindTask(line).ok \/ description = <<>>
             THEN ParseLines(Tail(lines), taskID)
             ELSE <<Task(taskID, description, LineStatus(line))>>
                  \o ParseLines(Tail(lines), taskID + 1)

\* TaskManager.ParseTasksFromLLM: [err, plan]
ParseTasksFromLLM(lines) ==
    LET tasks == ParseLines(lines, 1)
    IN  IF Len(tasks) = 0
        THEN [err |-> <<"no tasks found in LLM response">>, plan |-> <<>>]
        ELSE [err |-> <<>>,
              plan |-> UpdateStats([Tasks |-> tasks, TotalTasks |-> Len(tasks),
                                    Completed |-> 0, InProgress |-> 0, Pending |-> 0])]

(***************************************************************************)
(* The runner (internal/agent/runner.go)                                   *)
(***************************************************************************)
\* RunOptions.MaxIterations when the caller gives none.
DefaultMaxIterations == 25

\* Mutant of EffectiveMaxIterations: an option of zero is kept.
EffectiveMaxIterationsNegative(opt) == IF opt < 0 THEN DefaultMaxIterations ELSE opt

\* Run's defaulting of opts.MaxIterations.
EffectiveMaxIterations(opt) == IF opt <= 0 THEN DefaultMaxIterations ELSE opt

NoPlan == [Tasks |-> <<>>, TotalTasks |-> 0, Completed |-> 0, InProgress |-> 0, Pending |-> 0]
NoTask == Task(0, <<>>, "")
NoExecution ==
    [Task |-> NoTask, Actions |-> <<>>, Results |-> <<>>,
     Completed |-> FALSE, Failed |-> FALSE, FailureMsg |-> <<>>]

VARIABLES
    pc,             \* where Run is: "start", "tasks", "loop", "returned", "done", "error"
    opts,           \* the RunOptions Run was called with
    maxIterations,  \* opts.MaxIterations after Run's defaulting
    executor,       \* the Executor Run builds
    plan,           \* the TaskBreakdown PlanTask returned
    taskIdx,        \* index of Run's range loop over plan.Tasks (1-based)
    task,           \* the range loop's copy of the task
    i,              \* executeTask's loop counter
    actions,        \* executeTask's actions
    results,        \* executeTask's results
    chats,          \* LLM chat requests executeTask has made for this task
    execResult,     \* what executeTask returned
    executions,     \* Run's executions
    fs,             \* the file system
    spawned,        \* processes spawned so far
    mergePc,        \* where the Merge call is: "idle", "call", "returned"
    mergeIn,        \* the arguments of the Merge call
    mergeOut,       \* the HybridResult it returned
    classifyPc,     \* where the Classify call is: "idle", "call", "returned"
    query,          \* the query Classify is called with
    queryType,      \* the QueryType it returned
    db,             \* SQLiteVectorStore.db: the rows of the table chunks
    dims,           \* SQLiteVectorStore.dims
    mu,             \* SQLiteVectorStore.mu: who holds the lock
    calls,          \* the goroutines' calls of the store's methods
    chunkPc,        \* where the ChunkFile call is: "idle", "call", "returned"
    chunkIn,        \* the file ChunkFile is called with: its path and its lines
    chunkOut,       \* the chunks it returned
    indexer,        \* the IndexProject call: where it is and its local variables
    events,         \* what IndexProject has done so far, file by file
    codecPc,        \* where the encode/decode call is: "idle", "call", "returned"
    codecIn,        \* the vector that is encoded and the dimension it is decoded with
    codecOut,       \* the bytes, and what decodeEmbedding returned for them
    response,       \* the LLM's plan response PlanTask received: its lines
    server,         \* the MCP server process: its loop, its cache, its last response
    cli             \* the indexer command: its arguments and its exit

runVars == <<pc, opts, maxIterations, executor, plan, taskIdx, task, i, actions, results,
             chats, execResult, executions, fs, spawned>>
mergeVars == <<mergePc, mergeIn, mergeOut>>
classifyVars == <<classifyPc, query, queryType>>
\* The state of the packages the agent's run does not touch.
storeVars == <<db, dims, mu, calls>>
chunkVars == <<chunkPc, chunkIn, chunkOut>>
indexVars == <<indexer, events>>
codecVars == <<codecPc, codecIn, codecOut>>
surfaceVars == <<server, cli>>
otherVars == <<codecVars, response, surfaceVars>>
libVars == <<classifyVars, storeVars, chunkVars, indexVars, otherVars>>
\* The state the store's methods do not touch.
nonStoreVars == <<runVars, mergeVars, classifyVars, chunkVars, indexVars, otherVars>>
vars == <<runVars, mergeVars, libVars>>

NoMerge == [ragResults |-> <<>>, indexerFiles |-> <<>>, maxTokens |-> 0]
NoResult == [Files |-> <<>>, TotalTokens |-> 0, Sources |-> [Indexer |-> 0, RAG |-> 0]]

InitialFiles ==
    (<<"/", "p", "/", "a">> :> <<"a", "b">>) @@ (<<"/", "e">> :> <<"s">>)

RunIdle ==
    /\ pc = "start"
    /\ opts = [DryRun |-> FALSE, MaxIterations |-> 0]
    /\ maxIterations = 0
    /\ executor = NewExecutor(projectRoot, FALSE)
    /\ plan = NoPlan
    /\ taskIdx = 0
    /\ task = NoTask
    /\ i = 0
    /\ actions = <<>>
    /\ results = <<>>
    /\ chats = 0
    /\ execResult = NoExecution
    /\ executions = <<>>
    /\ fs = InitialFiles
    /\ spawned = 0

MergeIdle ==
    /\ mergePc = "idle"
    /\ mergeIn = NoMerge
    /\ mergeOut = NoResult

ClassifyIdle ==
    /\ classifyPc = "idle"
    /\ query = <<>>
    /\ queryType = ""

\* The dimension the store is built with (the embedder's Dimension()).
Dimensions == 2

\* An empty store that no goroutine calls.
StoreIdle ==
    /\ db = {}
    /\ dims = Dimensions
    /\ mu = [writers |-> {}, readers |-> {}]
    /\ calls = <<>>

NoFile == [path |-> <<>>, lines |-> <<>>]

ChunkIdle ==
    /\ chunkPc = "idle"
    /\ chunkIn = NoFile
    /\ chunkOut = <<>>

\* No IndexProject call is under way.
NoIndexer ==
    [pc |-> "idle", goroutine |-> 0, project |-> <<>>, stored |-> {}, files |-> <<>>,
     file |-> 0, chunks |-> <<>>, at |-> 0, totalChunks |-> 0,
     stats |-> [TotalFiles |-> 0, TotalChunks |-> 0], err |-> <<>>]

IndexIdle ==
    /\ indexer = NoIndexer
    /\ events = <<>>

CodecIdle ==
    /\ codecPc = "idle"
    /\ codecIn = [vec |-> <<>>, dims |-> 0]
    /\ codecOut = [data |-> <<>>, err |-> <<>>, vec |-> <<>>]

NoRPCError == [Code |-> 0, Message |-> ""]
NoToolResult == [Content |-> "", IsError |-> FALSE]
NoResponse == [Result |-> NoToolResult, Error |-> NoRPCError]
NoRequest == [name |-> "", argsOk |-> FALSE, indexOk |-> FALSE, agentOk |-> FALSE, runOk |-> FALSE]
NoServer ==
    [pc |-> "idle", req |-> NoRequest, resp |-> NoResponse, cache |-> FALSE,
     cause |-> "", handled |-> 0]
NoArgs == [command |-> "", sub |-> "", hasTask |-> FALSE, agentOk |-> FALSE, runOk |-> FALSE]
NoCli == [pc |-> "idle", args |-> NoArgs, exit |-> 0, cause |-> ""]

SurfaceIdle == server = NoServer /\ cli = NoCli

OtherIdle == CodecIdle /\ response = <<>> /\ SurfaceIdle

LibIdle ==
    /\ ClassifyIdle
    /\ StoreIdle
    /\ ChunkIdle
    /\ IndexIdle
    /\ OtherIdle

\* Before Run is called; no Merge call is under way.
Init ==
    /\ RunIdle
    /\ mergePc = "idle"
    /\ mergeIn = NoMerge
    /\ mergeOut = NoResult
    /\ LibIdle

\* Run up to its task loop: the options are defaulted, the project is
\* indexed, the plan is requested and parsed, the executor is built.  optSet
\* and responses are the inputs the call is given: the MaxIterations option
\* and the LLM's plan response (chatOk: the chat request succeeds).
RunPlan(optSet, responses) ==
    /\ pc = "start"
    /\ \E opt \in optSet, dry \in BOOLEAN, indexOk \in BOOLEAN, chatOk \in BOOLEAN,
          resp \in responses :
          LET parsed == ParseTasksFromLLM(resp)
          IN  /\ response' = IF indexOk /\ chatOk THEN resp ELSE <<>>
              /\ opts' = [DryRun |-> dry, MaxIterations |-> opt]
              /\ maxIterations' = EffectiveMaxIterations(opt)
              /\ IF ~indexOk \/ ~chatOk \/ parsed.err # <<>>
                 THEN /\ pc' = "error"
                      /\ UNCHANGED <<executor, plan, taskIdx>>
                 ELSE /\ pc' = "tasks"
                      /\ executor' = NewExecutor(projectRoot, dry)
                      /\ plan' = parsed.plan
                      /\ taskIdx' = 1
    /\ UNCHANGED <<task, i, actions, results, chats, execResult, executions, fs, spawned>>
    /\ UNCHANGED mergeVars
    /\ UNCHANGED <<classifyVars, storeVars, chunkVars, indexVars, codecVars, surfaceVars>>

\* The head of one round of Run's loop: the task is marked in progress and
\* executeTask is entered.
TaskBegin ==
    /\ pc = "tasks"
    /\ taskIdx <= Len(plan.Tasks)
    /\ task' = plan.Tasks[taskIdx]
    /\ plan' = UpdateTaskStatus(plan, plan.Tasks[taskIdx].ID, TaskStatusInProgress)
    /\ i' = 0
    /\ actions' = <<>>
    /\ results' = <<>>
    /\ chats' = 0
    /\ pc' = "loop"
    /\ UNCHANGED <<opts, maxIterations, executor, taskIdx, execResult, executions, fs, spawned>>
    /\ UNCHANGED mergeVars
    /\ UNCHANGED libVars

IsTerminal(action) == action.Type = ActionComplete \/ action.Type = ActionFail

\* Mutants of EndsLoop: the terminal test, or the failure test, is left out.
EndsLoopOnFailure(action, result) == ~result.Success
EndsLoopOnTerminal(action, result) == IsTerminal(action)

\* The loop ends after this action: a terminal action, or a failed one.
EndsLoop(action, result) == IsTerminal(action) \/ ~result.Success

\* The TaskExecution executeTask returns after an action that ends the loop.
StepExecution(t, acts, ress, action, result) ==
    IF IsTerminal(action)
    THEN [Task |-> t, Actions |-> acts, Results |-> ress,
          Completed |-> (action.Type = ActionComplete /\ result.Success),
          Failed |-> (action.Type = ActionFail \/ ~result.Success),
          FailureMsg |-> result.Error]
    ELSE [Task |-> t, Actions |-> acts, Results |-> ress,
          Completed |-> FALSE, Failed |-> TRUE, FailureMsg |-> result.Error]

\* The TaskExecution of a failed chat request or an unparsable response.
AbortExecution(t, msg) ==
    [Task |-> t, Actions |-> <<>>, Results |-> <<>>,
     Completed |-> FALSE, Failed |-> TRUE, FailureMsg |-> msg]

\* The TaskExecution when the loop runs out.
ExhaustedExecution(t, acts, ress) ==
    [Task |-> t, Actions |-> acts, Results |-> ress,
     Completed |-> FALSE, Failed |-> TRUE,
     FailureMsg |-> <<"max iterations reached before completion">>]

\* One round of executeTask's loop.  menu is the set of actions the LLM may
\* answer with; llm is what the chat request does: "error" (it fails),
\* "garbage" (a response that is no JSON action) or "action".
TaskStep(menu) ==
    /\ pc = "loop"
    /\ i < maxIterations
    /\ chats' = chats + 1
    /\ \E llm \in {"error", "garbage", "action"}, action \in menu, exitOk \in BOOLEAN :
          IF llm # "action"
          THEN /\ execResult' = AbortExecution(task,
                      IF llm = "error" THEN <<"llm error: ">> ELSE <<"could not parse action JSON: ">>)
               /\ pc' = "returned"
               /\ UNCHANGED <<i, actions, results, fs, spawned>>
          ELSE LET out == Execute(executor, fs, action, exitOk)
                   acts == Append(actions, action)
                   ress == Append(results, out.res)
               IN  /\ actions' = acts
                   /\ results' = ress
                   /\ fs' = out.fs
                   /\ spawned' = spawned + out.spawned
                   /\ IF EndsLoop(action, out.res)
                      THEN /\ execResult' = StepExecution(task, acts, ress, action, out.res)
                           /\ pc' = "returned"
                           /\ i' = i
                      ELSE /\ i' = i + 1
                           /\ UNCHANGED <<execResult, pc>>
    /\ UNCHANGED <<opts, maxIterations, executor, plan, taskIdx, task, executions>>
    /\ UNCHANGED mergeVars
    /\ UNCHANGED libVars

\* executeTask's return after the loop has run maxIterations rounds.
TaskExhaust ==
    /\ pc = "loop"
    /\ i >= maxIterations
    /\ execResult' = ExhaustedExecution(task, actions, results)
    /\ pc' = "returned"
    /\ UNCHANGED <<opts, maxIterations, executor, plan, taskIdx, task, i, actions, results,
                   chats, executions, fs, spawned>>
    /\ UNCHANGED mergeVars
    /\ UNCHANGED libVars

\* Mutant of FinalStatus: a failed task is left pending.
FinalStatusPending(exec) ==
    IF exec.Completed THEN TaskStatusCompleted ELSE TaskStatusPending

\* The status Run gives a task after executeTask.
FinalStatus(exec) ==
    IF exec.Completed THEN TaskStatusCompleted
    ELSE IF exec.Failed THEN TaskStatusBlocked
    ELSE TaskStatusPending

\* The tail of one round of Run's loop.
TaskEnd ==
    /\ pc = "returned"
    /\ executions' = Append(executions, execResult)
    /\ plan' = [UpdateTaskStatus(plan, task.ID, FinalStatus(execResult))
                  EXCEPT !.Tasks[taskIdx].Details = <<"Ran ", ToString(Len(execResult.Actions)), " action(s)">>]
    /\ taskIdx' = taskIdx + 1
    /\ pc' = "tasks"
    /\ UNCHANGED <<opts, maxIterations, executor, task, i, actions, results, chats,
                   execResult, fs, spawned>>
    /\ UNCHANGED mergeVars
    /\ UNCHANGED libVars

\* Run after its loop: the statistics are recomputed and the result returned.
RunFinish ==
    /\ pc = "tasks"
    /\ taskIdx > Len(plan.Tasks)
    /\ plan' = UpdateStats(plan)
    /\ pc' = "done"
    /\ UNCHANGED <<opts, maxIterations, executor, taskIdx, task, i, actions, results, chats,
                   execResult, executions, fs, spawned>>
    /\ UNCHANGED mergeVars
    /\ UNCHANGED libVars

(***************************************************************************)
(* The inputs of the runs                                                  *)
(***************************************************************************)
Action(type, path, edits, content) ==
    [Type |-> type, Path |-> path, Edits |-> edits, Content |-> content]

TextEdit(old, new) == [OldText |-> old, NewText |-> new]

\* The paths the LLM names: "a" (in the project), "../e" (relative, leaves
\* the project), "/e" (absolute, outside), "/p/../e" (absolute, begins with
\* the project root and names /e), ".env" (in the project, blocked).
PathInside == <<"a">>
PathDotDot == <<".", ".", "/", "e">>
PathOutside == <<"/", "e">>
PathRootDotDot == <<"/", "p", "/", ".", ".", "/", "e">>
PathBlocked == <<".", "e", "n", "v">>
Paths == {PathInside, PathDotDot, PathOutside, PathRootDotDot, PathBlocked}

\* Edit lists: one that applies to "ab", one whose second edit misses once
\* the first is applied, one whose second edit applies only once the first
\* is applied, one that misses, and none.
EditHit == <<TextEdit(<<"a">>, <<"c">>)>>
EditHitMiss == <<TextEdit(<<"a">>, <<"c">>), TextEdit(<<"a">>, <<"d">>)>>
EditChain == <<TextEdit(<<"a">>, <<"b">>), TextEdit(<<"b", "b">>, <<"c">>)>>
EditMiss == <<TextEdit(<<"z">>, <<"y">>)>>
EditLists == {EditHit, EditHitMiss, EditChain, EditMiss, <<>>}

FileActions ==
    {Action(t, p, <<>>, <<>>) : t \in {ActionReadFile, ActionDeleteFile}, p \in Paths}
    \cup {Action(ActionCreateFile, p, <<>>, <<"x">>) : p \in Paths}
    \cup {Action(ActionEditFile, p, EditHit, <<>>) : p \in Paths}
    \cup {Action(ActionEditFile, PathInside, ed, <<>>) : ed \in EditLists}

PlainActions ==
    {Action(t, <<>>, <<>>, <<>>) :
        t \in {ActionSearch, ActionAskUser, ActionComplete, ActionFail, "rename_file"}}

\* The executor's runs: every file action, commands, and the plain actions.
ExecutorMenu ==
    FileActions \cup PlainActions \cup {Action(ActionRunCommand, <<>>, <<>>, <<>>)}

\* The runner's runs: the actions that touch neither files nor processes.
RunnerMenu == PlainActions

\* Lines of a plan response: one that is blank once trimmed, one of prose, an
\* open and a ticked checkbox.
BlankLine == <<" ">>
ProseLine == <<"P", "l", "a", "n", ":">>
TodoLine == <<"[", " ", "]", " ", "a">>
DoneLine == <<"[", "x", "]", " ", "b">>
\* A numbered and a bulleted line, a lone class character and a line of
\* nothing but class characters.
MarkLine == <<BallotBoxWithCheck, " ", "e">>
NumberedLine == <<" ", "1", ".", " ", "c">>
BulletLine == <<"*", " ", "d", " ">>
LoneMark == <<"x">>
DashLine == <<"-", "-">>
LineKinds == {BlankLine, ProseLine, TodoLine, DoneLine}
PlanLines == LineKinds \cup {MarkLine, NumberedLine, BulletLine, LoneMark, DashLine}

\* Plan responses of at most n lines out of a set of lines.
ResponsesOf(lines, n) == UNION {[1..k -> lines] : k \in 0..n}
Responses(n) == ResponsesOf(LineKinds, n)

\* The runs of one task through every action of the executor.
Next ==
    \/ RunPlan(1..MaxIterOpt, {<<TodoLine>>, <<DoneLine>>})
    \/ TaskBegin
    \/ TaskStep(ExecutorMenu)
    \/ TaskExhaust
    \/ TaskEnd
    \/ RunFinish

Spec == Init /\ [][Next]_vars

\* The runs of every plan of at most MaxLines lines.
NextRunner ==
    \/ RunPlan(1..MaxIterOpt, Responses(MaxLines))
    \/ TaskBegin
    \/ TaskStep(RunnerMenu)
    \/ TaskExhaust
    \/ TaskEnd
    \/ RunFinish

SpecRunner == Init /\ [][NextRunner]_vars

\* The runs of one task with the iteration option unset, zero or positive.
NextCap ==
    \/ RunPlan((-1)..MaxIterOpt, {<<TodoLine>>})
    \/ TaskBegin
    \/ TaskStep(RunnerMenu)
    \/ TaskExhaust
    \/ TaskEnd
    \/ RunFinish

SpecCap == Init /\ [][NextCap]_vars

\* The runs of every plan of at most MaxLines lines in any of the formats,
\* each task with one iteration.
NextPlan ==
    \/ RunPlan({1}, ResponsesOf(PlanLines, MaxLines))
    \/ TaskBegin
    \/ TaskStep(RunnerMenu)
    \/ TaskExhaust
    \/ TaskEnd
    \/ RunFinish

SpecPlan == Init /\ [][NextPlan]_vars

\* The runs of a plan of two tasks through the file actions on one path.
FilesMenu ==
    {Action(t, PathInside, <<>>, <<>>) : t \in {ActionReadFile, ActionDeleteFile, ActionComplete}}
        \cup {Action(ActionCreateFile, PathInside, <<>>, <<"x">>),
              Action(ActionEditFile, PathInside, EditHit, <<>>),
              Action(ActionEditFile, PathInside, EditHitMiss, <<>>)}

NextFiles ==
    \/ RunPlan(1..MaxIterOpt, {<<TodoLine, TodoLine>>})
    \/ TaskBegin
    \/ TaskStep(FilesMenu)
    \/ TaskExhaust
    \/ TaskEnd
    \/ RunFinish

SpecFiles == Init /\ [][NextFiles]_vars

(***************************************************************************)
(* The result merger (internal/retrieval/merger.go)                        *)
(*                                                                         *)
(* A float32 relevance is modelled as an exact number of millionths, so    *)
(* that the boosts by 1.2 and 1.3 are exact for the scores of the model.   *)
(***************************************************************************)
\* The relevance 0.9 of a file only the indexer found.
IndexerRelevance == 900000
\* The token estimate of a file without chunk tokens.
DefaultFileTokens == 500

max(a, b) == IF a > b THEN a ELSE b

Chunk(path, tokens) == [FilePath |-> path, TokenCount |-> tokens]
SearchResult(chunk, score) == [Chunk |-> chunk, Score |-> score]

\* Merge's first loop over the RAG results.  m is [fileMap, RAG, Indexer]:
\* the map from path to FileResult and the two Sources counters.
RECURSIVE AddRagResults(_, _)
AddRagResults(m, ragResults) ==
    IF ragResults = <<>> THEN m
    ELSE LET res == Head(ragResults)
             filePath == res.Chunk.FilePath
         IN  IF filePath \in DOMAIN m.fileMap
             THEN LET existing == m.fileMap[filePath]
                  IN  AddRagResults(
                        [m EXCEPT !.fileMap[filePath] =
                            [existing EXCEPT
                                !.Relevance = (max(existing.Relevance, res.Score) * 12) \div 10,
                                !.Chunks = Append(existing.Chunks, res.Chunk),
                                !.Source = "both"]],
                        Tail(ragResults))
             ELSE AddRagResults(
                        [m EXCEPT !.fileMap = m.fileMap @@
                                     (filePath :> [Path |-> filePath, Relevance |-> res.Score,
                                                   Source |-> "rag", Chunks |-> <<res.Chunk>>]),
                                  !.RAG = m.RAG + 1],
                        Tail(ragResults))

\* Merge's second loop over the indexer's files.
RECURSIVE AddIndexerFiles(_, _)
AddIndexerFiles(m, indexerFiles) ==
    IF indexerFiles = <<>> THEN m
    ELSE LET filePath == Head(indexerFiles)
         IN  IF filePath \in DOMAIN m.fileMap
             THEN LET existing == m.fileMap[filePath]
                  IN  AddIndexerFiles(
                        [m EXCEPT !.fileMap[filePath] =
                            [existing EXCEPT
                                !.Relevance = (existing.Relevance * 13) \div 10,
                                !.Source = "both"]],
                        Tail(indexerFiles))
             ELSE AddIndexerFiles(
                        [m EXCEPT !.fileMap = m.fileMap @@
                                     (filePath :> [Path |-> filePath, Relevance |-> IndexerRelevance,
                                                   Source |-> "indexer", Chunks |-> <<>>]),
                                  !.Indexer = m.Indexer + 1],
                        Tail(indexerFiles))

EmptyFileMap == [fileMap |-> <<>>, RAG |-> 0, Indexer |-> 0]

\* The map Merge has built when both loops are done.
FileMap(ragResults, indexerFiles) ==
    AddIndexerFiles(AddRagResults(EmptyFileMap, ragResults), indexerFiles)

\* The orders sort.Slice may leave the files in: the map is ranged over in
\* an order Go does not fix and the sort is not stable, so every order that
\* is non-increasing in relevance is possible.
SortedOrders(fileMap) ==
    LET paths == DOMAIN fileMap
        n == Cardinality(paths)
    IN  {order \in [1..n -> paths] :
            /\ \A a, b \in 1..n : a # b => order[a] # order[b]
            /\ \A a \in 1..(n - 1) :
                  fileMap[order[a]].Relevance >= fileMap[order[a + 1]].Relevance}

RECURSIVE SumTokens(_)
SumTokens(chunks) ==
    IF chunks = <<>> THEN 0 ELSE Head(chunks).TokenCount + SumTokens(Tail(chunks))

\* The tokens truncateToTokenBudget counts for a file.
FileTokens(fileResult) ==
    LET fileTokens == SumTokens(fileResult.Chunks)
    IN  IF fileTokens = 0 THEN DefaultFileTokens ELSE fileTokens

\* Mutant of Truncate: a file that does not fit is passed over and the loop
\* goes on.
RECURSIVE TruncateSkips(_, _, _, _)
TruncateSkips(files, maxTokens, totalTokens, truncated) ==
    IF files = <<>> THEN [Files |-> truncated, TotalTokens |-> totalTokens]
    ELSE LET fileTokens == FileTokens(Head(files))
         IN  IF totalTokens + fileTokens > maxTokens
             THEN TruncateSkips(Tail(files), maxTokens, totalTokens, truncated)
             ELSE TruncateSkips(Tail(files), maxTokens, totalTokens + fileTokens,
                                Append(truncated, Head(files)))

\* truncateToTokenBudget's loop: [Files, TotalTokens]
RECURSIVE Truncate(_, _, _, _)
Truncate(files, maxTokens, totalTokens, truncated) ==
    IF files = <<>> THEN [Files |-> truncated, TotalTokens |-> totalTokens]
    ELSE LET fileTokens == FileTokens(Head(files))
         IN  IF totalTokens + fileTokens > maxTokens
             THEN [Files |-> truncated, TotalTokens |-> totalTokens]
             ELSE Truncate(Tail(files), maxTokens, totalTokens + fileTokens,
                           Append(truncated, Head(files)))

truncateToTokenBudget(files, maxTokens) == Truncate(files, maxTokens, 0, <<>>)

\* The results Merge may return.
Merge(ragResults, indexerFiles, maxTokens) ==
    LET m == FileMap(ragResults, indexerFiles)
    IN  {[Files |-> t.Files, TotalTokens |-> t.TotalTokens,
          Sources |-> [Indexer |-> m.Indexer, RAG |-> m.RAG]] :
            t \in {truncateToTokenBudget([k \in DOMAIN order |-> m.fileMap[order[k]]], maxTokens) :
                     order \in SortedOrders(m.fileMap)}}

\* Bounds of the merger's inputs.
MaxRag == 2
MaxIndexer == 2

MergePaths == {"a.go", "b.go", "c.go"}
\* Scores -0.5, 0.5 and 0.8.
Scores == {0 - 500000, 500000, 800000}
TokenCounts == {0, 300, 600}
Budgets == {0, 500, 1000, 50000}
RagResults == {SearchResult(Chunk(p, t), sc) : p \in {"a.go", "b.go"}, t \in TokenCounts, sc \in Scores}
SeqsUpTo(S, n) == UNION {[1..k -> S] : k \in 0..n}

\* A merger built with one of the budgets, about to be called.
InitMerge ==
    /\ RunIdle
    /\ LibIdle
    /\ mergePc = "call"
    /\ mergeOut = NoResult
    /\ \E ragResults \in SeqsUpTo(RagResults, MaxRag),
          indexerFiles \in SeqsUpTo(MergePaths, MaxIndexer),
          maxTokens \in Budgets :
          mergeIn = [ragResults |-> ragResults, indexerFiles |-> indexerFiles,
                     maxTokens |-> maxTokens]

\* The call of Merge.
MergeCall ==
    /\ mergePc = "call"
    /\ mergeOut' \in Merge(mergeIn.ragResults, mergeIn.indexerFiles, mergeIn.maxTokens)
    /\ mergePc' = "returned"
    /\ UNCHANGED mergeIn
    /\ UNCHANGED runVars
    /\ UNCHANGED libVars

NextMerge == MergeCall

SpecMerge == InitMerge /\ [][NextMerge]_vars

(***************************************************************************)
(* The query analyzer (internal/retrieval/query_analyzer.go)               *)
(***************************************************************************)
StructuralQuery == "structural"
SemanticQuery == "semantic"
HybridQuery == "hybrid"

UpperLetters == <<"A", "B", "C", "D", "E", "F", "G", "H", "I", "J", "K", "L", "M", "N", "O", "P", "Q", "R", "S", "T", "U", "V", "W", "X", "Y", "Z">>
LowerLetters == <<"a", "b", "c", "d", "e", "f", "g", "h", "i", "j", "k", "l", "m", "n", "o", "p", "q", "r", "s", "t", "u", "v", "w", "x", "y", "z">>

IsUpper(c) == \E k \in 1..Len(UpperLetters) : UpperLetters[k] = c
IsLower(c) == \E k \in 1..Len(LowerLetters) : LowerLetters[k] = c

\* strings.ToLower on the characters of the model.
ToLowerChar(c) ==
    IF IsUpper(c) THEN LowerLetters[CHOOSE k \in 1..Len(UpperLetters) : UpperLetters[k] = c]
    ELSE c
ToLower(s) == [k \in 1..Len(s) |-> ToLowerChar(s[k])]

\* The end of the longest run of [a-zA-Z0-9] that follows position p.
RECURSIVE MatchEnd(_, _)
MatchEnd(s, p) ==
    IF p < Len(s) /\ (IsUpper(s[p + 1]) \/ IsLower(s[p + 1]) \/ IsDigit(s[p + 1]))
    THEN MatchEnd(s, p + 1)
    ELSE p

\* symbolPattern.FindAllString(s, -1) for the pattern [A-Z][a-zA-Z0-9]*:
\* the leftmost, longest, non-overlapping matches from position p on.
RECURSIVE FindAllString(_, _)
FindAllString(s, p) ==
    IF p > Len(s) THEN <<>>
    ELSE IF IsUpper(s[p])
    THEN <<SubSeq(s, p, MatchEnd(s, p))>> \o FindAllString(s, MatchEnd(s, p) + 1)
    ELSE FindAllString(s, p + 1)

conceptWords ==
    { <<"h", "o", "w">>,
      <<"w", "h", "e", "r", "e">>,
      <<"w", "h", "y">>,
      <<"f", "i", "n", "d">>,
      <<"s", "e", "a", "r", "c", "h">>,
      <<"e", "x", "p", "l", "a", "i", "n">>,
      <<"s", "h", "o", "w", " ", "m", "e">> }
behaviorWords ==
    { <<"h", "a", "n", "d", "l", "e">>,
      <<"p", "r", "o", "c", "e", "s", "s">>,
      <<"v", "a", "l", "i", "d", "a", "t", "e">>,
      <<"c", "h", "e", "c", "k">>,
      <<"m", "a", "n", "a", "g", "e">>,
      <<"c", "r", "e", "a", "t", "e">>,
      <<"u", "p", "d", "a", "t", "e">>,
      <<"d", "e", "l", "e", "t", "e">> }
callGraphWords ==
    { <<"c", "a", "l", "l", "s">>,
      <<"c", "a", "l", "l", "e", "d", " ", "b", "y">>,
      <<"u", "s", "e", "s">>,
      <<"u", "s", "e", "d", " ", "b", "y">>,
      <<"d", "e", "p", "e", "n", "d", "s", " ", "o", "n">>,
      <<"i", "m", "p", "o", "r", "t", "s">> }
commonWords ==
    { <<"I">>,
      <<"A">>,
      <<"T", "h", "e">>,
      <<"T", "h", "i", "s">>,
      <<"T", "h", "a", "t">>,
      <<"W", "h", "a", "t">>,
      <<"H", "o", "w">>,
      <<"W", "h", "e", "r", "e">>,
      <<"W", "h", "y">> }

hasSymbols(q) ==
    LET matches == FindAllString(q, 1)
    IN  \E k \in 1..Len(matches) : matches[k] \notin commonWords /\ Len(matches[k]) > 1

containsAny(text, words) == \E word \in words : Contains(text, word)

hasFilePath(q) ==
    Contains(q, <<"/">>) \/ Contains(q, <<".", "g", "o">>) \/ Contains(q, <<".", "p", "y">>)

\* Classify: the query is lowercased first, and every test, hasSymbols
\* included, is made on the lowercased text.
Classify(text) ==
    LET q == ToLower(text)
        hasSymbol == hasSymbols(q)
        hasCallGraph == containsAny(q, callGraphWords)
        hasConcept == containsAny(q, conceptWords)
        hasBehavior == containsAny(q, behaviorWords)
    IN  IF (hasSymbol \/ hasFilePath(q) \/ hasCallGraph) /\ ~hasConcept /\ ~hasBehavior
        THEN StructuralQuery
        ELSE IF (hasConcept \/ hasBehavior) /\ ~hasSymbol /\ ~hasFilePath(q)
        THEN SemanticQuery
        ELSE HybridQuery

\* Longest query, in phrases.
MaxPhrases == 3

\* The phrases the queries are made of.
Phrases ==
    { <<"U", "s", "e", "r", "M", "o", "d", "e", "l">>,
      <<"p", "a", "r", "s", "e", "C", "o", "n", "f", "i", "g">>,
      <<"c", "a", "l", "l", "e", "r", "s", " ", "o", "f">>,
      <<"h", "o", "w", " ", "d", "o", "e", "s">>,
      <<"h", "a", "n", "d", "l", "e", " ", "a", "u", "t", "h">>,
      <<"T", "h", "e">>,
      <<"c", "a", "l", "l", "s">>,
      <<"x", ".", "g", "o">>,
      <<"l", "o", "g", "i", "n">> }

RECURSIVE JoinPhrases(_)
JoinPhrases(ps) ==
    IF ps = <<>> THEN <<>>
    ELSE IF Len(ps) = 1 THEN ps[1]
    ELSE ps[1] \o <<" ">> \o JoinPhrases(Tail(ps))

Queries == {JoinPhrases(ps) : ps \in UNION {[1..k -> Phrases] : k \in 0..MaxPhrases}}

\* An analyzer about to classify one of the queries.
InitClassify ==
    /\ RunIdle
    /\ MergeIdle
    /\ StoreIdle
    /\ ChunkIdle
    /\ IndexIdle
    /\ OtherIdle
    /\ classifyPc = "call"
    /\ query \in Queries
    /\ queryType = ""

\* The call of Classify.
ClassifyCall ==
    /\ classifyPc = "call"
    /\ queryType' = Classify(query)
    /\ classifyPc' = "returned"
    /\ UNCHANGED query
    /\ UNCHANGED <<runVars, mergeVars, storeVars, chunkVars, indexVars, otherVars>>

NextClassify == ClassifyCall

SpecClassify == InitClassify /\ [][NextClassify]_vars

(***************************************************************************)
(* Chunks (internal/rag/types.go)                                          *)
(***************************************************************************)
\* The characters a content is hashed over, with their codes.
Alphabet == LowerLetters \o UpperLetters \o Digits \o <<" ", "(", ")", "{", "}", ":", "#">>
CharCode(c) ==
    IF \E k \in 1..Len(Alphabet) : Alphabet[k] = c
    THEN CHOOSE k \in 1..Len(Alphabet) : Alphabet[k] = c
    ELSE 0

HexDigits == <<"0", "1", "2", "3", "4", "5", "6", "7", "8", "9", "a", "b", "c", "d", "e", "f">>

\* Length of a SHA-256 digest in hexadecimal digits, and of a chunk id.
HashLen == 64
IDLen == 16

\* The sum of the codes of the characters lo..hi, each weighted by its place.
RECURSIVE WeightedSum(_, _, _)
WeightedSum(content, lo, hi) ==
    IF lo > hi THEN 0
    ELSE IF lo = hi THEN CharCode(content[lo]) * ((lo % 251) + 1)
    ELSE WeightedSum(content, lo, (lo + hi) \div 2)
            + WeightedSum(content, ((lo + hi) \div 2) + 1, hi)

\* A 16-bit digest of the content: the stand-in for SHA-256.
Digest(content) == (7 + Len(content) + WeightedSum(content, 1, Len(content))) % 65536

\* computeHash: the digest of the content in HashLen hexadecimal digits (the
\* four digits of Digest, repeated).
computeHash(content) ==
    LET d == Digest(content)
        nibble(k) == (d \div (IF k % 4 = 0 THEN 4096 ELSE IF k % 4 = 1 THEN 256
                                ELSE IF k % 4 = 2 THEN 16 ELSE 1)) % 16
    IN  [k \in 1..HashLen |-> HexDigits[nibble(k - 1) + 1]]

estimateTokens(text) == Len(text) \div 4

NewChunk(filePath, content, chunkType, symbolName, language, startLine, endLine) ==
    LET hash == computeHash(content)
    IN  [ID |-> SubSeq(hash, 1, IDLen),
         FilePath |-> filePath,
         StartLine |-> startLine,
         EndLine |-> endLine,
         ChunkType |-> chunkType,
         SymbolName |-> symbolName,
         Language |-> language,
         Content |-> content,
         TokenCount |-> estimateTokens(content),
         Hash |-> hash]

(***************************************************************************)
(* Embeddings as blobs (unnamed/part_002)                                  *)
(*                                                                         *)
(* The float32 values of the model are small integers; their IEEE-754      *)
(* bit patterns are computed, byte by byte.                                *)
(***************************************************************************)
RECURSIVE Pow2(_)
Pow2(n) == IF n = 0 THEN 1 ELSE 2 * Pow2(n - 1)

\* The exponent of the largest power of two that is at most n (n >= 1).
RECURSIVE Log2Floor(_)
Log2Floor(n) == IF n < 2 THEN 0 ELSE 1 + Log2Floor(n \div 2)

AbsInt(v) == IF v < 0 THEN 0 - v ELSE v

\* A float32 is held as the fields of its 32 bits: the sign bit, the 8 bits
\* of the exponent and the 23 bits of the mantissa.
Float32(sign, exponent, mantissa) ==
    [sign |-> sign, exponent |-> exponent, mantissa |-> mantissa]

\* float32(v) for an integer v of at most 24 bits.
F32(v) ==
    IF v = 0 THEN Float32(0, 0, 0)
    ELSE LET e == Log2Floor(AbsInt(v))
         IN  Float32(IF v < 0 THEN 1 ELSE 0, e + 127, (AbsInt(v) - Pow2(e)) * Pow2(23 - e))

\* The value of a float32 that holds an integer.
Value(f) ==
    IF f.exponent = 0 /\ f.mantissa = 0 THEN 0
    ELSE LET magnitude == (Pow2(23) + f.mantissa) \div Pow2(23 - (f.exponent - 127))
         IN  IF f.sign = 1 THEN 0 - magnitude ELSE magnitude

\* The vector of float32 of the integers.
Vec(ints) == [k \in 1..Len(ints) |-> F32(ints[k])]

\* binary.LittleEndian.PutUint32(math.Float32bits(v)): the four bytes of the
\* bits of v, least significant first.
Float32bits(v) ==
    << v.mantissa % 256,
       (v.mantissa \div 256) % 256,
       (v.exponent % 2) * 128 + v.mantissa \div 65536,
       v.sign * 128 + v.exponent \div 2 >>

\* A mutant of Float32frombits: the conversion sets the quiet bit of a NaN.
Float32frombitsQuiet(b) ==
    LET exponent == (b[4] % 128) * 2 + b[3] \div 128
        mantissa == (b[3] % 128) * 65536 + b[2] * 256 + b[1]
    IN  Float32(b[4] \div 128, exponent,
                IF exponent = 255 /\ mantissa # 0 /\ mantissa < Pow2(22)
                THEN mantissa + Pow2(22) ELSE mantissa)

\* math.Float32frombits(binary.LittleEndian.Uint32(b)): the float32 of the
\* four bytes.
Float32frombits(b) ==
    Float32(b[4] \div 128,
            (b[4] % 128) * 2 + b[3] \div 128,
            (b[3] % 128) * 65536 + b[2] * 256 + b[1])

RECURSIVE encodeEmbedding(_)
encodeEmbedding(vec) ==
    IF vec = <<>> THEN <<>> ELSE Float32bits(Head(vec)) \o encodeEmbedding(Tail(vec))

\* decodeEmbedding: [err, vec]
decodeEmbedding(data, dimensions) ==
    IF Len(data) # dimensions * 4
    THEN [err |-> <<"embedding length mismatch">>, vec |-> <<>>]
    ELSE [err |-> <<>>,
          vec |-> [k \in 1..dimensions |-> Float32frombits(SubSeq(data, 4 * k - 3, 4 * k))]]

(***************************************************************************)
(* Cosine similarity (internal/rag/types.go)                               *)
(*                                                                         *)
(* Square roots are taken to two decimals and the score is in thousandths. *)
(***************************************************************************)
RECURSIVE Dot(_, _)
Dot(a, b) ==
    IF a = <<>> THEN 0 ELSE Value(Head(a)) * Value(Head(b)) + Dot(Tail(a), Tail(b))

\* math.Sqrt, in hundredths.
Sqrt100(n) == CHOOSE r \in 0..(100 * n) : r * r <= 10000 * n /\ (r + 1) * (r + 1) > 10000 * n

cosineSimilarity(a, b) ==
    IF Len(a) # Len(b) THEN 0
    ELSE LET dotProduct == Dot(a, b)
             normA == Dot(a, a)
             normB == Dot(b, b)
         IN  IF normA = 0 \/ normB = 0 THEN 0
             ELSE LET denominator == Sqrt100(normA) * Sqrt100(normB)
                      quotient == (AbsInt(dotProduct) * 10000000) \div denominator
                  IN  IF dotProduct < 0 THEN 0 - quotient ELSE quotient

(***************************************************************************)
(* The vector store (unnamed/part_002)                                     *)
(*                                                                         *)
(* db is the table chunks: a set of rows.  Each goroutine that calls the   *)
(* store has a call record: where it is in the method, the arguments and   *)
(* what the method returns.                                                *)
(***************************************************************************)
Row(chunk, blob) ==
    [ID |-> chunk.ID, FilePath |-> chunk.FilePath, StartLine |-> chunk.StartLine,
     EndLine |-> chunk.EndLine, ChunkType |-> chunk.ChunkType,
     SymbolName |-> chunk.SymbolName, Language |-> chunk.Language,
     Content |-> chunk.Content, TokenCount |-> chunk.TokenCount, Hash |-> chunk.Hash,
     embedding |-> blob]

\* The Chunk Search builds from the columns of a row.
ScanChunk(row) ==
    [ID |-> row.ID, FilePath |-> row.FilePath, StartLine |-> row.StartLine,
     EndLine |-> row.EndLine, ChunkType |-> row.ChunkType,
     SymbolName |-> row.SymbolName, Language |-> row.Language,
     Content |-> row.Content, TokenCount |-> row.TokenCount, Hash |-> row.Hash]

\* A mutant of InsertOrReplace: a plain INSERT into a table without the
\* primary key.
InsertPlain(tx, row) == tx \cup {row}

\* INSERT OR REPLACE on the primary key id.
InsertOrReplace(tx, row) == {r \in tx : r.ID # row.ID} \cup {row}

\* InsertBatch's loop from chunk i on, inside the transaction: [err, tx]
RECURSIVE ExecRows(_, _, _, _, _)
ExecRows(tx, chunks, embeddings, dimensions, k) ==
    IF k > Len(chunks) THEN [err |-> <<>>, tx |-> tx]
    ELSE IF Len(embeddings[k]) # dimensions
    THEN [err |-> <<"embedding dims mismatch: expected ", ToString(dimensions),
                    " got ", ToString(Len(embeddings[k]))>>,
          tx |-> tx]
    ELSE ExecRows(InsertOrReplace(tx, Row(chunks[k], encodeEmbedding(embeddings[k]))),
                  chunks, embeddings, dimensions, k + 1)

\* A mutant of Rollback: the rows the transaction has written stay.
RollbackKeeps(table, tx) == tx

\* tx.Rollback and tx.Commit: the table after them.
Rollback(table, tx) == table
Commit(table, tx) == tx

\* InsertBatch under the lock: [err, db]
InsertBatchTx(table, chunks, embeddings, dimensions) ==
    LET r == ExecRows(table, chunks, embeddings, dimensions, 1)
    IN  IF r.err # <<>>
        THEN [err |-> r.err, db |-> Rollback(table, r.tx)]
        ELSE [err |-> <<>>, db |-> Commit(table, r.tx)]

SearchResultOf(row, queryEmbedding, dimensions) ==
    [Chunk |-> ScanChunk(row),
     Score |-> cosineSimilarity(queryEmbedding, decodeEmbedding(row.embedding, dimensions).vec),
     Source |-> "rag"]

Min(a, b) == IF a < b THEN a ELSE b

\* A mutant of SortedResults: the results stay in the order of the rows.
UnsortedResults(scored, n) ==
    {order \in [1..n -> scored] : \A a, b \in 1..n : a # b => order[a] # order[b]}

\* The first n results in the orders sort.Slice may leave them in: the rows
\* come in an order the query does not fix and the sort is not stable, so a
\* result of the highest score is first, and the rest follow in the same
\* way.
RECURSIVE SortedResults(_, _)
SortedResults(scored, n) ==
    IF n = 0 THEN {<<>>}
    ELSE UNION {{<<best>> \o rest : rest \in SortedResults(scored \ {best}, n - 1)} :
                   best \in {r \in scored : \A other \in scored : r.Score >= other.Score}}

\* Search under the lock: the set of [err, results] it may return.
SearchRows(table, queryEmbedding, topK, dimensions) ==
    IF \E row \in table : decodeEmbedding(row.embedding, dimensions).err # <<>>
    THEN {[err |-> <<"decode embedding: embedding length mismatch">>, results |-> <<>>]}
    ELSE LET scored == {SearchResultOf(row, queryEmbedding, dimensions) : row \in table}
         IN  {[err |-> <<>>, results |-> top] :
                 top \in SortedResults(scored, Min(topK, Cardinality(scored)))}

DeleteRows(table, filePath) == {row \in table : row.FilePath # filePath}

\* The call record of a goroutine that is in no method of the store.
IdleCall ==
    [pc |-> "idle", method |-> "", op |-> "", chunks |-> <<>>, embeddings |-> <<>>, filePath |-> <<>>,
     queryEmbedding |-> <<>>, topK |-> 0, err |-> <<>>, results |-> <<>>, count |-> 0,
     before |-> {}]

InsertCall(chunk, embedding) ==
    [IdleCall EXCEPT !.pc = "start", !.method = "insert", !.op = "insert",
                     !.chunks = <<chunk>>, !.embeddings = <<embedding>>]
InsertBatchCall(chunks, embeddings) ==
    [IdleCall EXCEPT !.pc = "start", !.method = "insert_batch", !.op = "insert_batch",
                     !.chunks = chunks, !.embeddings = embeddings]
SearchCall(queryEmbedding, topK) ==
    [IdleCall EXCEPT !.pc = "start", !.method = "search", !.op = "search",
                     !.queryEmbedding = queryEmbedding, !.topK = topK]
DeleteCall(filePath) == [IdleCall EXCEPT !.pc = "start", !.method = "delete", !.op = "delete", !.filePath = filePath]
CountCall == [IdleCall EXCEPT !.pc = "start", !.method = "count", !.op = "count"]
ClearCall == [IdleCall EXCEPT !.pc = "start", !.method = "clear", !.op = "clear"]

WriteOps == {"insert_batch", "delete", "clear"}
ReadOps == {"search", "count"}

\* sync.RWMutex: the goroutines that hold the write lock and the read lock.
\* A reader that Go would make wait behind a waiting writer may enter here:
\* the model allows every schedule Go allows.
FreeMutex == [writers |-> {}, readers |-> {}]

\* Mutants of CanLock and CanRLock: the readers, or the writer, are not
\* waited for.
CanLockOverReaders(m) == m.writers = {}
CanRLockOverWriter(m) == TRUE

CanLock(m) == m.writers = {} /\ m.readers = {}
CanRLock(m) == m.writers = {}

\* A goroutine calls a method of the store with arguments from menu.
StoreCall(menu) ==
    \E g \in DOMAIN calls \ {indexer.goroutine}, call \in menu :
        /\ calls[g].pc = "idle"
        /\ calls' = [calls EXCEPT ![g] = call]
        /\ UNCHANGED <<db, dims, mu>>
        /\ UNCHANGED nonStoreVars

\* Insert: the call of InsertBatch with the one chunk and the one vector.
Insert ==
    \E g \in DOMAIN calls :
        /\ calls[g].pc = "start"
        /\ calls[g].op = "insert"
        /\ calls' = [calls EXCEPT ![g].op = "insert_batch"]
        /\ UNCHANGED <<db, dims, mu>>
        /\ UNCHANGED nonStoreVars

\* InsertBatch up to s.mu.Lock(): the lengths are compared first, and the
\* method returns without the lock when they differ.
InsertBatchLock ==
    \E g \in DOMAIN calls :
        /\ calls[g].pc = "start"
        /\ calls[g].op = "insert_batch"
        /\ IF Len(calls[g].chunks) # Len(calls[g].embeddings)
           THEN /\ calls' = [calls EXCEPT ![g].pc = "returned",
                                          ![g].before = db,
                                          ![g].err = <<"chunks and embeddings length mismatch">>]
                /\ UNCHANGED mu
           ELSE /\ CanLock(mu)
                /\ mu' = [mu EXCEPT !.writers = @ \cup {g}]
                /\ calls' = [calls EXCEPT ![g].pc = "inside", ![g].before = db]
        /\ UNCHANGED <<db, dims>>
        /\ UNCHANGED nonStoreVars

\* s.mu.Lock() of Delete and Clear.
Lock ==
    \E g \in DOMAIN calls :
        /\ calls[g].pc = "start"
        /\ calls[g].op \in {"delete", "clear"}
        /\ CanLock(mu)
        /\ mu' = [mu EXCEPT !.writers = @ \cup {g}]
        /\ calls' = [calls EXCEPT ![g].pc = "inside", ![g].before = db]
        /\ UNCHANGED <<db, dims>>
        /\ UNCHANGED nonStoreVars

\* s.mu.RLock() of Search and Count.
RLock ==
    \E g \in DOMAIN calls :
        /\ calls[g].pc = "start"
        /\ calls[g].op \in ReadOps
        /\ CanRLock(mu)
        /\ mu' = [mu EXCEPT !.readers = @ \cup {g}]
        /\ calls' = [calls EXCEPT ![g].pc = "inside", ![g].before = db]
        /\ UNCHANGED <<db, dims>>
        /\ UNCHANGED nonStoreVars

\* InsertBatch between Lock and Unlock: the transaction.
InsertBatch ==
    \E g \in DOMAIN calls :
        /\ calls[g].pc = "inside"
        /\ calls[g].op = "insert_batch"
        /\ LET r == InsertBatchTx(db, calls[g].chunks, calls[g].embeddings, dims)
           IN  /\ db' = r.db
               /\ calls' = [calls EXCEPT ![g].pc = "leaving", ![g].err = r.err]
        /\ UNCHANGED <<dims, mu>>
        /\ UNCHANGED nonStoreVars

\* Search between RLock and RUnlock.
Search ==
    \E g \in DOMAIN calls :
        /\ calls[g].pc = "inside"
        /\ calls[g].op = "search"
        /\ \E r \in SearchRows(db, calls[g].queryEmbedding, calls[g].topK, dims) :
              calls' = [calls EXCEPT ![g].pc = "leaving", ![g].err = r.err,
                                     ![g].results = r.results]
        /\ UNCHANGED <<db, dims, mu>>
        /\ UNCHANGED nonStoreVars

\* Delete between Lock and Unlock.
Delete ==
    \E g \in DOMAIN calls :
        /\ calls[g].pc = "inside"
        /\ calls[g].op = "delete"
        /\ db' = DeleteRows(db, calls[g].filePath)
        /\ calls' = [calls EXCEPT ![g].pc = "leaving"]
        /\ UNCHANGED <<dims, mu>>
        /\ UNCHANGED nonStoreVars

\* Count between RLock and RUnlock.
Count ==
    \E g \in DOMAIN calls :
        /\ calls[g].pc = "inside"
        /\ calls[g].op = "count"
        /\ calls' = [calls EXCEPT ![g].pc = "leaving", ![g].count = Cardinality(db)]
        /\ UNCHANGED <<db, dims, mu>>
        /\ UNCHANGED nonStoreVars

\* Mutant of Clear: the rows are kept.
ClearKeeps ==
    \E g \in DOMAIN calls :
        /\ calls[g].pc = "inside"
        /\ calls[g].op = "clear"
        /\ db' = db
        /\ calls' = [calls EXCEPT ![g].pc = "leaving"]
        /\ UNCHANGED <<dims, mu>>
        /\ UNCHANGED nonStoreVars

\* Clear between Lock and Unlock.
Clear ==
    \E g \in DOMAIN calls :
        /\ calls[g].pc = "inside"
        /\ calls[g].op = "clear"
        /\ db' = {}
        /\ calls' = [calls EXCEPT ![g].pc = "leaving"]
        /\ UNCHANGED <<dims, mu>>
        /\ UNCHANGED nonStoreVars

\* The deferred s.mu.Unlock() or s.mu.RUnlock(), and the return.
Unlock ==
    \E g \in DOMAIN calls :
        /\ calls[g].pc = "leaving"
        /\ mu' = [writers |-> mu.writers \ {g}, readers |-> mu.readers \ {g}]
        /\ calls' = [calls EXCEPT ![g].pc = "returned"]
        /\ UNCHANGED <<db, dims>>
        /\ UNCHANGED nonStoreVars

\* The caller has what the method returned.
StoreReturn ==
    \E g \in DOMAIN calls \ {indexer.goroutine} :
        /\ calls[g].pc = "returned"
        /\ calls' = [calls EXCEPT ![g] = IdleCall]
        /\ UNCHANGED <<db, dims, mu>>
        /\ UNCHANGED nonStoreVars

\* Bounds of the store's inputs: the longest batch and the largest topK.
MaxBatch == 2
MaxTopK == 2
\* The goroutines that call the store concurrently.
MaxGoroutines == 2

ContentA == <<"f", "u", "n", "c", " ", "a", "(", ")">>
ContentB == <<"d", "e", "f", " ", "b", "(", ")", ":">>

\* Two chunks of the same content in two files, and a chunk of another
\* content.
PathF == <<"f", ".", "g", "o">>
PathG == <<"g", ".", "g", "o">>
PathH == <<"h", ".", "p", "y">>

StoreChunks ==
    { NewChunk(PathF, ContentA, "function", <<"a">>, "go", 1, 2),
      NewChunk(PathG, ContentA, "function", <<"a">>, "go", 5, 6),
      NewChunk(PathH, ContentB, "function", <<"b">>, "python", 3, 4) }

\* Vectors of the store's dimension, and one that is too short.
StoreVectors == {Vec(<<1, 0>>), Vec(<<1, 1>>), Vec(<<0, 1>>), Vec(<<1>>)}
QueryVectors == {Vec(<<1, 0>>), Vec(<<0, 1>>)}

StoreMenu ==
    {InsertCall(c, v) : c \in StoreChunks, v \in StoreVectors}
    \cup {InsertBatchCall(cs, vs) : cs \in SeqsUpTo(StoreChunks, MaxBatch),
                                    vs \in SeqsUpTo(StoreVectors, MaxBatch)}
    \cup {SearchCall(q, k) : q \in QueryVectors, k \in 0..MaxTopK}
    \cup {DeleteCall(f) : f \in {PathF, PathG}}
    \cup {CountCall, ClearCall}

LockMenu ==
    { InsertCall(NewChunk(PathF, ContentA, "function", <<"a">>, "go", 1, 2), Vec(<<1, 0>>)),
      InsertBatchCall(<<NewChunk(PathH, ContentB, "function", <<"b">>, "python", 3, 4)>>,
                      <<Vec(<<0, 1>>)>>),
      SearchCall(Vec(<<1, 0>>), 1), DeleteCall(PathF), CountCall, ClearCall }

\* A new store, called by one goroutine.
InitStore ==
    /\ RunIdle
    /\ MergeIdle
    /\ ClassifyIdle
    /\ ChunkIdle
    /\ IndexIdle
    /\ OtherIdle
    /\ db = {}
    /\ dims = Dimensions
    /\ mu = FreeMutex
    /\ calls = [g \in 1..1 |-> IdleCall]

StoreSteps ==
    \/ Insert
    \/ InsertBatchLock
    \/ Lock
    \/ RLock
    \/ InsertBatch
    \/ Search
    \/ Delete
    \/ Count
    \/ Clear
    \/ Unlock
    \/ StoreReturn

NextStore ==
    \/ StoreCall(StoreMenu)
    \/ StoreSteps

SpecStore == InitStore /\ [][NextStore]_vars

\* A new store, called by MaxGoroutines goroutines.
InitLock ==
    /\ RunIdle
    /\ MergeIdle
    /\ ClassifyIdle
    /\ ChunkIdle
    /\ IndexIdle
    /\ OtherIdle
    /\ db = {}
    /\ dims = Dimensions
    /\ mu = FreeMutex
    /\ calls = [g \in 1..MaxGoroutines |-> IdleCall]

NextLock ==
    \/ StoreCall(LockMenu)
    \/ StoreSteps

SpecLock == InitLock /\ [][NextLock]_vars

(***************************************************************************)
(* The chunkers (internal/rag/chunker.go)                                  *)
(*                                                                         *)
(* A text is held as the sequence of its lines, the form strings.Split     *)
(* (text, "\n") gives it and strings.Join(lines, "\n") takes it from; the  *)
(* content of a chunk is the joined text, character by character.          *)
(***************************************************************************)
\* strings.Join(lines, "\n"), joined by halves.
RECURSIVE JoinLines(_)
JoinLines(lines) ==
    IF lines = <<>> THEN <<>>
    ELSE IF Len(lines) = 1 THEN lines[1]
    ELSE JoinLines(SubSeq(lines, 1, Len(lines) \div 2)) \o <<"\n">>
            \o JoinLines(SubSeq(lines, (Len(lines) \div 2) + 1, Len(lines)))

\* len(s) - len(strings.TrimLeft(s, " \t"))
leadingIndent(s) ==
    LET kept == {k \in 1..Len(s) : s[k] \notin {" ", "\t"}}
    IN  IF kept = {} THEN Len(s) ELSE (CHOOSE k \in kept : \A j \in kept : k <= j) - 1

\* strconv.Itoa of a natural number.
RECURSIVE Itoa(_)
Itoa(n) == IF n < 10 THEN <<Digits[n + 1]>> ELSE Itoa(n \div 10) \o <<Digits[(n % 10) + 1]>>

\* The sliding window: lines per chunk and lines shared by two chunks.
chunkSize == 50
overlap == 10
\* The fewest characters, trimmed, of a window and of a block or a part.
MinWindowChars == 50
MinBlockChars == 20

\* The loop of genericSlidingChunks (and of GoChunker.genericChunk, the same
\* loop for "go") from line index at.
RECURSIVE SlidingLoop(_, _, _, _, _)
SlidingLoop(filePath, lines, lang, at, chunks) ==
    IF at >= Len(lines) THEN chunks
    ELSE LET end == Min(at + chunkSize, Len(lines))
             chunkContent == JoinLines(SubSeq(lines, at + 1, end))
         IN  IF Len(TrimSpace(chunkContent)) < MinWindowChars
             THEN SlidingLoop(filePath, lines, lang, at + (chunkSize - overlap), chunks)
             ELSE LET chunk == NewChunk(filePath, chunkContent, "block", <<>>, lang, at + 1, end)
                  IN  IF end >= Len(lines) THEN Append(chunks, chunk)
                      ELSE SlidingLoop(filePath, lines, lang, at + (chunkSize - overlap),
                                       Append(chunks, chunk))

genericSlidingChunks(filePath, lines, lang) == SlidingLoop(filePath, lines, lang, 0, <<>>)

genericChunk(filePath, lines) == SlidingLoop(filePath, lines, "go", 0, <<>>)

\* splitLargeChunk's limits: characters of a chunk that is not split, lines
\* shared by two parts, lines per part.
maxChunkSize == 4000
overlapLines == 10
linesPerChunk == Min(maxChunkSize \div 40, 100)

\* The loop of splitLargeChunk from line index at.
RECURSIVE SplitLoop(_, _, _, _, _, _, _, _, _)
SplitLoop(filePath, lines, chunkType, symbolName, language, start, at, partNum, chunks) ==
    IF at >= Len(lines) THEN chunks
    ELSE LET endIdx == Min(at + linesPerChunk, Len(lines))
             subContent == JoinLines(SubSeq(lines, at + 1, endIdx))
         IN  IF Len(TrimSpace(subContent)) < MinBlockChars
             THEN SplitLoop(filePath, lines, chunkType, symbolName, language, start,
                            at + (linesPerChunk - overlapLines), partNum, chunks)
             ELSE LET partSymbol ==
                          IF partNum > 1 \/ endIdx < Len(lines)
                          THEN symbolName \o <<"_", "p", "a", "r", "t">> \o Itoa(partNum)
                          ELSE symbolName
                      chunk == NewChunk(filePath, subContent, chunkType, partSymbol, language,
                                        start + at, start + endIdx - 1)
                  IN  IF endIdx >= Len(lines) THEN Append(chunks, chunk)
                      ELSE SplitLoop(filePath, lines, chunkType, symbolName, language, start,
                                     at + (linesPerChunk - overlapLines), partNum + 1,
                                     Append(chunks, chunk))

\* splitLargeChunk; lines is the content, split.
splitLargeChunk(filePath, lines, chunkType, symbolName, language, start, end) ==
    IF Len(JoinLines(lines)) <= maxChunkSize
    THEN <<NewChunk(filePath, JoinLines(lines), chunkType, symbolName, language, start, end)>>
    ELSE SplitLoop(filePath, lines, chunkType, symbolName, language, start, 0, 1, <<>>)

\* strings.TrimSuffix(s, ":")
TrimColon(s) == IF Len(s) > 0 /\ s[Len(s)] = ":" THEN SubSeq(s, 1, Len(s) - 1) ELSE s

extractPythonName(signature) ==
    LET sig == TrimColon(TrimSpace(signature))
        cut == IF Contains(sig, <<"(">>) THEN SubSeq(sig, 1, SetMin(Occurrences(sig, <<"(">>)))
               ELSE sig
    IN  TrimSpace(cut)

ClassPrefix == <<"c", "l", "a", "s", "s", " ">>
DefPrefix == <<"d", "e", "f", " ">>

\* PythonChunker.ChunkFile's loop over the decorators above line index at.
RECURSIVE DecoratorStart(_, _, _, _)
DecoratorStart(lines, d, startIdx, baseIndent) ==
    IF d < 0 THEN startIdx
    ELSE LET decTrim == TrimSpace(lines[d + 1])
         IN  IF decTrim = <<>> THEN startIdx
             ELSE IF HasPrefix(decTrim, <<"@">>) /\ leadingIndent(lines[d + 1]) = baseIndent
             THEN DecoratorStart(lines, d - 1, d, baseIndent)
             ELSE startIdx

\* PythonChunker.ChunkFile's loop to the end of the block, from line index j.
RECURSIVE BlockEnd(_, _, _, _)
BlockEnd(lines, j, endIdx, baseIndent) ==
    IF j >= Len(lines) THEN endIdx
    ELSE LET next == lines[j + 1]
             trimNext == TrimSpace(next)
         IN  IF trimNext = <<>> \/ HasPrefix(trimNext, <<"#">>)
             THEN BlockEnd(lines, j + 1, endIdx, baseIndent)
             ELSE IF leadingIndent(next) <= baseIndent /\ ~HasPrefix(trimNext, <<"@">>)
             THEN endIdx
             ELSE BlockEnd(lines, j + 1, j + 1, baseIndent)

\* PythonChunker.ChunkFile's loop from line index at.
RECURSIVE PythonLoop(_, _, _, _)
PythonLoop(filePath, lines, at, chunks) ==
    IF at >= Len(lines) THEN chunks
    ELSE LET line == lines[at + 1]
             trimmed == TrimSpace(line)
             isClass == HasPrefix(trimmed, ClassPrefix)
             isDef == HasPrefix(trimmed, DefPrefix)
         IN  IF trimmed = <<>> \/ ~(isClass \/ isDef)
             THEN PythonLoop(filePath, lines, at + 1, chunks)
             ELSE LET chunkType == IF isClass THEN "class"
                                   ELSE IF leadingIndent(line) > 0 THEN "method"
                                   ELSE "function"
                      symbolName ==
                          extractPythonName(SubSeq(trimmed,
                              (IF isClass THEN Len(ClassPrefix) ELSE Len(DefPrefix)) + 1,
                              Len(trimmed)))
                      baseIndent == leadingIndent(line)
                      startIdx == DecoratorStart(lines, at - 1, at, baseIndent)
                      endIdx == BlockEnd(lines, at + 1, at + 1, baseIndent)
                      chunkLines == SubSeq(lines, startIdx + 1, endIdx)
                  IN  IF Len(TrimSpace(JoinLines(chunkLines))) < MinBlockChars
                      THEN PythonLoop(filePath, lines, at + 1, chunks)
                      ELSE PythonLoop(filePath, lines, endIdx,
                               chunks \o splitLargeChunk(filePath, chunkLines, chunkType,
                                                         symbolName, "python",
                                                         startIdx + 1, endIdx))

\* PythonChunker.ChunkFile
PythonChunkFile(filePath, lines) ==
    LET chunks == PythonLoop(filePath, lines, 0, <<>>)
    IN  IF Len(chunks) = 0 THEN genericSlidingChunks(filePath, lines, "python") ELSE chunks

(***************************************************************************)
(* go/parser, for the Go of the model: a package clause, then one          *)
(* declaration per line or per block.  A func is written on one line or    *)
(* ends at the next line "}"; a type is written on one line, as a block    *)
(* that ends at the next line "}", or as a line of a group "type (" that   *)
(* ends at the next line ")"; a func body may declare types on one line.   *)
(* Blank lines and // comments are skipped; any other line is a syntax     *)
(* error.  The declarations come in the order ast.Inspect visits them.     *)
(***************************************************************************)
PackagePrefix == <<"p", "a", "c", "k", "a", "g", "e", " ">>
FuncPrefix == <<"f", "u", "n", "c", " ">>
TypePrefix == <<"t", "y", "p", "e", " ">>
TypeGroup == <<"t", "y", "p", "e", " ", "(">>

\* The text before the first occurrence of sep, all of s when there is none.
Before(s, sep) ==
    IF Contains(s, sep) THEN SubSeq(s, 1, SetMin(Occurrences(s, sep))) ELSE s
\* The text after the first occurrence of sep, empty when there is none.
After(s, sep) ==
    IF Contains(s, sep)
    THEN SubSeq(s, SetMin(Occurrences(s, sep)) + Len(sep) + 1, Len(s))
    ELSE <<>>
\* The text after the last occurrence of sep, all of s when there is none.
AfterLast(s, sep) ==
    IF Contains(s, sep)
    THEN SubSeq(s, (CHOOSE k \in Occurrences(s, sep) : \A j \in Occurrences(s, sep) : j <= k)
                       + Len(sep) + 1, Len(s))
    ELSE s

\* The FuncDecl of a line "func name(...) ..." or "func (r T) name(...) ...":
\* recv is exprToString of the receiver's type, empty without a receiver.
FuncDeclOf(line, start, end) ==
    LET rest == SubSeq(line, Len(FuncPrefix) + 1, Len(line))
        hasRecv == Len(rest) > 0 /\ rest[1] = "("
        recvType == AfterLast(Before(SubSeq(rest, 2, Len(rest)), <<")">>), <<" ">>)
        name == IF hasRecv THEN Before(TrimSpace(After(rest, <<")">>)), <<"(">>)
                ELSE Before(rest, <<"(">>)
    IN  [kind |-> "func", hasRecv |-> hasRecv, recv |-> IF hasRecv THEN recvType ELSE <<>>,
         name |-> name, typeKind |-> "", start |-> start, end |-> end]

\* The TypeSpec "name type" of a line, without the keyword.
TypeSpecOf(spec, start, end) ==
    LET name == Before(spec, <<" ">>)
        type == TrimSpace(After(spec, <<" ">>))
    IN  [kind |-> "type", hasRecv |-> FALSE, recv |-> <<>>, name |-> name,
         typeKind |-> IF HasPrefix(type, <<"s", "t", "r", "u", "c", "t">>) THEN "struct"
                      ELSE IF HasPrefix(type, <<"i", "n", "t", "e", "r", "f", "a", "c", "e">>)
                      THEN "interface"
                      ELSE "type",
         start |-> start, end |-> end]

LastChar(s) == IF s = <<>> THEN "" ELSE s[Len(s)]
\* The text without its last character.
Front(s) == SubSeq(s, 1, Len(s) - 1)

\* The tokens the parser takes for an identifier and for a type; a line of
\* another form is a syntax error.
IsIdent(s) ==
    /\ s # <<>>
    /\ IsUpper(s[1]) \/ IsLower(s[1]) \/ s[1] = "_"
    /\ \A k \in 1..Len(s) : IsUpper(s[k]) \/ IsLower(s[k]) \/ IsDigit(s[k]) \/ s[k] = "_"
IsComment(t) == HasPrefix(t, <<"/", "/">>)
IsTypeExpr(t) ==
    \/ IsIdent(t)
    \/ Len(t) > 1 /\ t[1] = "*" /\ IsIdent(Tail(t))
    \/ t \in {<<"s", "t", "r", "u", "c", "t", "{", "}">>,
              <<"i", "n", "t", "e", "r", "f", "a", "c", "e", "{", "}">>}
\* "name type"
IsTypeSpec(spec) ==
    /\ IsIdent(Before(spec, <<" ">>))
    /\ IsTypeExpr(TrimSpace(After(spec, <<" ">>)))
\* "name type {", the head of a struct or an interface of several lines.
IsTypeHead(spec) ==
    /\ IsIdent(Before(spec, <<" ">>))
    /\ TrimSpace(After(spec, <<" ">>)) \in {<<"s", "t", "r", "u", "c", "t", " ", "{">>,
                                            <<"i", "n", "t", "e", "r", "f", "a", "c", "e", " ", "{">>}
\* "func name(...) {" or "func (r T) name(...) {", params without parentheses.
IsFuncHead(head) ==
    LET rest == SubSeq(head, Len(FuncPrefix) + 1, Len(head))
        hasRecv == Len(rest) > 0 /\ rest[1] = "("
        recv == Before(SubSeq(rest, 2, Len(rest)), <<")">>)
        sig == IF hasRecv THEN TrimSpace(After(rest, <<")">>)) ELSE rest
    IN  /\ HasPrefix(head, FuncPrefix)
        /\ hasRecv => (Contains(rest, <<")">>) /\ IsTypeSpec(recv))
        /\ IsIdent(Before(sig, <<"(">>))
        /\ Contains(sig, <<"(">>)
        /\ LET tail == After(sig, <<"(">>)
           IN  /\ Contains(tail, <<")">>)
               /\ ~Contains(Before(tail, <<")">>), <<"(">>)
               /\ TrimSpace(After(tail, <<")">>)) = <<"{">>
\* A line of a func body: empty, a comment, an identifier, a return of an
\* identifier, or a type declaration of one line.
IsStmt(t) ==
    \/ t = <<>>
    \/ IsComment(t)
    \/ IsIdent(t)
    \/ HasPrefix(t, <<"r", "e", "t", "u", "r", "n", " ">>) /\ IsIdent(TrimSpace(SubSeq(t, 8, Len(t))))
    \/ HasPrefix(t, TypePrefix) /\ IsTypeSpec(TrimSpace(SubSeq(t, Len(TypePrefix) + 1, Len(t))))
\* A line of a type group, of a struct or of an interface.
IsSpecLine(t) == t = <<>> \/ IsComment(t) \/ IsTypeSpec(t)

\* The lines from..to that are equal to text.
LinesEqual(lines, from, to, text) == {j \in from..to : lines[j] = text}

\* The one-line type declarations of the lines from..to of a func body,
\* gathered by halves.
RECURSIVE LocalTypes(_, _, _)
LocalTypes(lines, from, to) ==
    IF from > to THEN <<>>
    ELSE IF from = to
    THEN LET t == TrimSpace(lines[from])
         IN  IF HasPrefix(t, TypePrefix)
             THEN <<TypeSpecOf(TrimSpace(SubSeq(t, Len(TypePrefix) + 1, Len(t))), from, from)>>
             ELSE <<>>
    ELSE LocalTypes(lines, from, (from + to) \div 2)
            \o LocalTypes(lines, ((from + to) \div 2) + 1, to)

\* The type specs of the lines from..to of a group, gathered by halves.
RECURSIVE GroupSpecs(_, _, _)
GroupSpecs(lines, from, to) ==
    IF from > to THEN <<>>
    ELSE IF from = to
    THEN LET t == TrimSpace(lines[from])
         IN  IF t = <<>> \/ IsComment(t) THEN <<>> ELSE <<TypeSpecOf(t, from, from)>>
    ELSE GroupSpecs(lines, from, (from + to) \div 2)
            \o GroupSpecs(lines, ((from + to) \div 2) + 1, to)

\* The declarations from line k on: [err, decls]
RECURSIVE ParseDecls(_, _, _)
ParseDecls(lines, k, decls) ==
    IF k > Len(lines) THEN [err |-> FALSE, decls |-> decls]
    ELSE LET line == lines[k]
             t == TrimSpace(line)
             spec == TrimSpace(SubSeq(line, Len(TypePrefix) + 1, Len(line)))
             braces == LinesEqual(lines, k + 1, Len(lines), <<"}">>)
             parens == LinesEqual(lines, k + 1, Len(lines), <<")">>)
         IN  IF t = <<>> \/ IsComment(t) THEN ParseDecls(lines, k + 1, decls)
             ELSE IF LastChar(line) = "}" /\ LastChar(TrimSpace(Front(line))) = "{"
                     /\ IsFuncHead(TrimSpace(Front(line)))
             THEN ParseDecls(lines, k + 1, Append(decls, FuncDeclOf(line, k, k)))
             ELSE IF IsFuncHead(line) /\ braces # {}
                     /\ \A j \in (k + 1)..(SetMin(braces) - 1) : IsStmt(TrimSpace(lines[j]))
             THEN ParseDecls(lines, SetMin(braces) + 1,
                     Append(decls, FuncDeclOf(line, k, SetMin(braces)))
                         \o LocalTypes(lines, k + 1, SetMin(braces) - 1))
             ELSE IF line = TypeGroup /\ parens # {}
                     /\ \A j \in (k + 1)..(SetMin(parens) - 1) : IsSpecLine(TrimSpace(lines[j]))
             THEN ParseDecls(lines, SetMin(parens) + 1,
                     decls \o GroupSpecs(lines, k + 1, SetMin(parens) - 1))
             ELSE IF HasPrefix(line, TypePrefix) /\ IsTypeHead(spec) /\ braces # {}
                     /\ \A j \in (k + 1)..(SetMin(braces) - 1) : IsSpecLine(TrimSpace(lines[j]))
             THEN ParseDecls(lines, SetMin(braces) + 1,
                     Append(decls, TypeSpecOf(spec, k, SetMin(braces))))
             ELSE IF HasPrefix(line, TypePrefix) /\ IsTypeSpec(spec)
             THEN ParseDecls(lines, k + 1, Append(decls, TypeSpecOf(spec, k, k)))
             ELSE [err |-> TRUE, decls |-> <<>>]

\* parser.ParseFile: [err, decls]
ParseFile(lines) ==
    LET code == {k \in 1..Len(lines) :
                    TrimSpace(lines[k]) # <<>> /\ ~HasPrefix(TrimSpace(lines[k]), <<"/", "/">>)}
    IN  IF code = {} \/ ~HasPrefix(lines[SetMin(code)], PackagePrefix)
           \/ ~IsIdent(TrimSpace(SubSeq(lines[SetMin(code)], Len(PackagePrefix) + 1,
                                        Len(lines[SetMin(code)]))))
        THEN [err |-> TRUE, decls |-> <<>>]
        ELSE ParseDecls(lines, SetMin(code) + 1, <<>>)

\* extractLines, on the split content; the empty string is one empty line.
extractLines(lines, startLine, endLine) ==
    IF startLine < 1 \/ startLine > Len(lines) THEN << <<>> >>
    ELSE LET rows == SubSeq(lines, startLine, Min(endLine, Len(lines)))
         IN  IF rows = <<>> THEN << <<>> >> ELSE rows

\* The chunks of one declaration that ast.Inspect visits.
DeclChunks(filePath, lines, decl) ==
    LET declContent == extractLines(lines, decl.start, decl.end)
        chunkType == IF decl.kind = "type" THEN decl.typeKind
                     ELSE IF decl.hasRecv THEN "method"
                     ELSE "function"
        symbolName == IF decl.kind = "func" /\ decl.hasRecv
                      THEN decl.recv \o <<".">> \o decl.name
                      ELSE decl.name
    IN  splitLargeChunk(filePath, declContent, chunkType, symbolName, "go", decl.start, decl.end)

RECURSIVE InspectDecls(_, _, _)
InspectDecls(filePath, lines, decls) ==
    IF decls = <<>> THEN <<>>
    ELSE DeclChunks(filePath, lines, Head(decls)) \o InspectDecls(filePath, lines, Tail(decls))

\* GoChunker.ChunkFile
GoChunkFile(filePath, lines) ==
    LET parsed == ParseFile(lines)
    IN  IF parsed.err THEN genericChunk(filePath, lines)
        ELSE LET chunks == InspectDecls(filePath, lines, parsed.decls)
             IN  IF Len(chunks) = 0 THEN genericChunk(filePath, lines) ELSE chunks

\* filepath.Ext
Ext(path) ==
    LET base == AfterLast(path, <<"/">>)
    IN  IF Contains(base, <<".">>) THEN <<".">> \o AfterLast(base, <<".">>) ELSE <<>>

\* ChunkerFactory(filePath).ChunkFile(filePath, content)
ChunkFile(filePath, lines) ==
    IF Ext(filePath) = <<".", "p", "y">> THEN PythonChunkFile(filePath, lines)
    ELSE GoChunkFile(filePath, lines)

(***************************************************************************)
(* The files the chunkers are given                                        *)
(***************************************************************************)
\* Longest file made of the lines below, in lines.
MaxFileLines == 4

GoLines ==
    { <<"p", "a", "c", "k", "a", "g", "e", " ", "p">>,
      <<"t", "y", "p", "e", " ", "(">>,
      <<"A", " ", "B">>,
      <<")">>,
      <<"f", "u", "n", "c", " ", "f", "(", ")", "{", "}">>,
      <<"f", "u", "n", "c", " ", "(", "r", " ", "*", "T", ")", " ", "N", "a", "m", "e", "(", ")", " ", "{">>,
      <<"}">>,
      <<>> }
PythonLines ==
    { <<"d", "e", "f", " ", "f", "(", "a", ")", ":">>,
      <<" ", " ", " ", " ", "r", "e", "t", "u", "r", "n", " ", "1">>,
      <<"@", "d", "e", "c">>,
      <<"c", "l", "a", "s", "s", " ", "C", "(", "B", ")", ":">>,
      <<>>,
      <<"#", " ", "c">>,
      <<"x", " ", "=", " ", "1">> }

\* A line of 44 characters, and files of a block of 101 such lines: more than
\* maxChunkSize characters and more than linesPerChunk lines.
LongLine == [k \in 1..44 |-> IF k <= 4 THEN " " ELSE "x"]
BigPython == <<<<"d", "e", "f", " ", "b", "i", "g", "(", "a", ")", ":">>>> \o [k \in 1..101 |-> LongLine]
BigGo == <<<<"p", "a", "c", "k", "a", "g", "e", " ", "p">>, <<"f", "u", "n", "c", " ", "b", "i", "g", "(", ")", " ", "{">>>> \o [k \in 1..101 |-> LongLine] \o <<<<"}">>>>
\* A text of 95 lines of 10 characters: three windows.
PlainText == [k \in 1..95 |-> [j \in 1..10 |-> "y"]]

PathBigPy == <<"b", "i", "g", ".", "p", "y">>
PathBigGo == <<"b", "i", "g", ".", "g", "o">>
PathText == <<"n", "o", "t", "e", "s", ".", "t", "x", "t">>

ChunkFiles ==
    {[path |-> PathF, lines |-> ls] : ls \in UNION {[1..k -> GoLines] : k \in 1..MaxFileLines}}
    \cup {[path |-> PathH, lines |-> ls] :
             ls \in UNION {[1..k -> PythonLines] : k \in 1..MaxFileLines}}
    \cup {[path |-> PathBigPy, lines |-> BigPython], [path |-> PathBigGo, lines |-> BigGo],
          [path |-> PathText, lines |-> PlainText]}

\* A chunker about to be given one of the files.
InitChunk ==
    /\ RunIdle
    /\ MergeIdle
    /\ ClassifyIdle
    /\ StoreIdle
    /\ IndexIdle
    /\ OtherIdle
    /\ chunkPc = "call"
    /\ chunkIn \in ChunkFiles
    /\ chunkOut = <<>>

\* The call of ChunkerFactory(filePath).ChunkFile(filePath, content).
ChunkFileCall ==
    /\ chunkPc = "call"
    /\ chunkOut' = ChunkFile(chunkIn.path, chunkIn.lines)
    /\ chunkPc' = "returned"
    /\ UNCHANGED chunkIn
    /\ UNCHANGED <<runVars, mergeVars, classifyVars, storeVars, indexVars, otherVars>>

NextChunk == ChunkFileCall

SpecChunk == InitChunk /\ [][NextChunk]_vars

(***************************************************************************)
(* The blocks splitLargeChunk is given                                     *)
(***************************************************************************)
\* The largest first line of a block.
MaxStart == 3
\* The numbers of lines of a block, the widths of its lines, and the number
\* of empty lines it begins with; one block more is a line of 6000
\* characters.
LineCounts == {1, 2, 41, 60, 91, 100, 101, 181, 191}
LineWidths == {10, 44, 100}
EmptyLines == {0, 100}

SymbolBig == <<"b", "i", "g">>

\* A block of n lines of width w, the first e of them empty.
Block(n, w, e) == [k \in 1..n |-> IF k <= e THEN <<>> ELSE [j \in 1..w |-> "x"]]

SplitBlocks ==
    {[path |-> PathF, lines |-> Block(n, w, e), start |-> st] :
        n \in LineCounts, w \in LineWidths, e \in EmptyLines, st \in 1..MaxStart}
    \cup {[path |-> PathF, lines |-> Block(1, 6000, 0), start |-> st] : st \in 1..MaxStart}

\* splitLargeChunk about to be given the function of one of the blocks.
InitSplit ==
    /\ RunIdle
    /\ MergeIdle
    /\ ClassifyIdle
    /\ StoreIdle
    /\ IndexIdle
    /\ OtherIdle
    /\ chunkPc = "call"
    /\ chunkIn \in SplitBlocks
    /\ chunkOut = <<>>

\* The call splitLargeChunk(filePath, content, "function", "big", "go", start, end).
SplitCall ==
    /\ chunkPc = "call"
    /\ chunkOut' = splitLargeChunk(chunkIn.path, chunkIn.lines, "function", SymbolBig, "go",
                                   chunkIn.start, chunkIn.start + Len(chunkIn.lines) - 1)
    /\ chunkPc' = "returned"
    /\ UNCHANGED chunkIn
    /\ UNCHANGED <<runVars, mergeVars, classifyVars, storeVars, indexVars, otherVars>>

NextSplit == SplitCall

SpecSplit == InitSplit /\ [][NextSplit]_vars

(***************************************************************************)
(* The vectors that are encoded and decoded                                *)
(***************************************************************************)
\* The longest vector.
MaxDims == 2

NegativeZero == Float32(1, 0, 0)
SignallingNaN == Float32(0, 255, 1)
QuietNaN == Float32(0, 255, 4194304)

\* Integers, a half, the signed zeros, a denormal, the largest float, the
\* infinities, NaNs of both kinds and signs, and a pattern of mixed bits.
Floats ==
    {F32(n) : n \in -2..2}
    \cup { NegativeZero, SignallingNaN, QuietNaN, Float32(1, 255, 8388607),
           Float32(0, 0, 1), Float32(0, 254, 8388607), Float32(0, 255, 0),
           Float32(1, 255, 0), Float32(0, 126, 0), Float32(1, 129, 2796202) }

\* A vector about to be encoded, and decoded with a dimension.
InitCodec ==
    /\ RunIdle
    /\ MergeIdle
    /\ ClassifyIdle
    /\ StoreIdle
    /\ ChunkIdle
    /\ IndexIdle
    /\ response = <<>>
    /\ SurfaceIdle
    /\ codecPc = "call"
    /\ codecIn \in [vec : SeqsUpTo(Floats, MaxDims), dims : 0..MaxDims]
    /\ codecOut = [data |-> <<>>, err |-> <<>>, vec |-> <<>>]

\* decodeEmbedding(encodeEmbedding(vec), dims)
CodecCall ==
    /\ codecPc = "call"
    /\ LET data == encodeEmbedding(codecIn.vec)
           decoded == decodeEmbedding(data, codecIn.dims)
       IN  codecOut' = [data |-> data, err |-> decoded.err, vec |-> decoded.vec]
    /\ codecPc' = "returned"
    /\ UNCHANGED codecIn
    /\ UNCHANGED <<runVars, mergeVars, classifyVars, storeVars, chunkVars, indexVars, response, surfaceVars>>

NextCodec == CodecCall

SpecCodec == InitCodec /\ [][NextCodec]_vars

(***************************************************************************)
(* The MCP server (cmd/mcp-server/main.go) and the command line            *)
(* (cmd/indexer/main.go)                                                   *)
(***************************************************************************)
\* Requests one server process handles.
MaxRequests == 2

IndexTools == {"get_project_context", "search_code", "get_project_structure", "get_call_graph"}
ToolNames == IndexTools \cup {"run_agent_task"}

\* A tools/call request and what the core does for it: argsOk, the required
\* arguments are strings; indexOk, IndexProject succeeds; agentOk,
\* NewCodingAgent succeeds; runOk, Run returns no error.
ToolRequests ==
    [name : ToolNames \cup {"no_such_tool"}, argsOk : BOOLEAN, indexOk : BOOLEAN,
     agentOk : BOOLEAN, runOk : BOOLEAN]

\* What a tool function gives: a result or an error, or it panics on the
\* type assertion of a required argument; cause is the core error behind it.
ToolReturn(result, err, cause, cache) ==
    [result |-> result, err |-> err, panic |-> FALSE, cause |-> cause, cache |-> cache]
ToolPanic(cache) ==
    [result |-> NoToolResult, err |-> "", panic |-> TRUE, cause |-> "", cache |-> cache]

\* getProjectContext, searchCode, getProjectStructure, getCallGraph
IndexTool(req, cache) ==
    IF ~req.argsOk THEN ToolPanic(cache)
    ELSE IF ~cache /\ ~req.indexOk
         THEN ToolReturn([Content |-> "Error indexing project: walk failed", IsError |-> TRUE],
                         "", "indexing", cache)
    ELSE ToolReturn([Content |-> "text", IsError |-> FALSE], "", "", TRUE)

\* runAgentTask
runAgentTask(req, cache) ==
    IF ~req.argsOk THEN ToolPanic(cache)
    ELSE IF ~req.agentOk
         THEN ToolReturn(NoToolResult, "failed to create LLM client", "agent", cache)
    ELSE IF ~req.runOk
         THEN ToolReturn(NoToolResult, "failed to parse tasks", "run", cache)
    ELSE ToolReturn([Content |-> "checklist", IsError |-> FALSE], "", "", cache)

\* MCPServer.ExecuteTool
ExecuteTool(req, cache) ==
    IF req.name \in IndexTools THEN IndexTool(req, cache)
    ELSE IF req.name = "run_agent_task" THEN runAgentTask(req, cache)
    ELSE ToolReturn(NoToolResult, "unknown tool: no_such_tool", "unknown tool", cache)

\* main's loop reads a tools/call request from stdin.
McpScan ==
    /\ server.pc = "scan"
    /\ server.handled < MaxRequests
    /\ \E req \in ToolRequests :
          server' = [server EXCEPT !.pc = "call", !.req = req, !.resp = NoResponse, !.cause = ""]
    /\ UNCHANGED <<runVars, mergeVars, classifyVars, storeVars, chunkVars, indexVars,
                   codecVars, response, cli>>

\* main's case "tools/call": the tool is executed and the response encoded.
McpToolsCall ==
    /\ server.pc = "call"
    /\ LET ret == ExecuteTool(server.req, server.cache)
       IN  server' =
               IF ret.panic THEN [server EXCEPT !.pc = "panicked"]
               ELSE [server EXCEPT
                        !.pc = "scan",
                        !.cache = ret.cache,
                        !.cause = ret.cause,
                        !.handled = @ + 1,
                        !.resp = IF ret.err # ""
                                 THEN [Result |-> NoToolResult,
                                       Error |-> [Code |-> -32603, Message |-> ret.err]]
                                 ELSE [Result |-> ret.result, Error |-> NoRPCError]]
    /\ UNCHANGED <<runVars, mergeVars, classifyVars, storeVars, chunkVars, indexVars,
                   codecVars, response, cli>>

\* stdin ends: main returns.
McpShutdown ==
    /\ server.pc = "scan"
    /\ server' = [server EXCEPT !.pc = "exited"]
    /\ UNCHANGED <<runVars, mergeVars, classifyVars, storeVars, chunkVars, indexVars,
                   codecVars, response, cli>>

\* The command lines of the indexer the model runs:
\* no command, help, an unknown command, agent with no or an unknown
\* subcommand, and agent run with or without a task, where hasTask says
\* whether the task argument is given, agentOk whether NewCodingAgent
\* succeeds and runOk whether Run returns no error.
CommandLines ==
    {[NoArgs EXCEPT !.command = c] : c \in {"", "help", "bogus"}}
        \cup {[NoArgs EXCEPT !.command = "agent", !.sub = sub] : sub \in {"", "bogus"}}
        \cup [command : {"agent"}, sub : {"run"},
              hasTask : BOOLEAN, agentOk : BOOLEAN, runOk : BOOLEAN]

\* The exit of a process: its status and what caused it.
Exit(status, cause) == [status |-> status, cause |-> cause]

\* cmdAgentRun
cmdAgentRun(args) ==
    IF ~args.hasTask THEN Exit(1, "usage")
    ELSE IF ~args.agentOk THEN Exit(1, "agent")
    ELSE IF ~args.runOk THEN Exit(1, "run")
    ELSE Exit(0, "")

\* cmdAgent
cmdAgent(args) ==
    IF args.sub = "" THEN Exit(1, "usage")
    ELSE IF args.sub = "run" THEN cmdAgentRun(args)
    ELSE Exit(1, "usage")

\* main of the indexer command
CliMain ==
    /\ cli.pc = "start"
    /\ \E args \in CommandLines :
          LET exit == IF args.command = "" THEN Exit(1, "usage")
                      ELSE IF args.command = "agent" THEN cmdAgent(args)
                      ELSE IF args.command = "help" THEN Exit(0, "")
                      ELSE Exit(1, "usage")
          IN  cli' = [pc |-> "exited", args |-> args, exit |-> exit.status, cause |-> exit.cause]
    /\ UNCHANGED <<runVars, mergeVars, classifyVars, storeVars, chunkVars, indexVars,
                   codecVars, response, server>>

InitSurface ==
    /\ RunIdle
    /\ MergeIdle
    /\ ClassifyIdle
    /\ StoreIdle
    /\ ChunkIdle
    /\ IndexIdle
    /\ CodecIdle
    /\ response = <<>>
    /\ server = [NoServer EXCEPT !.pc = "scan"]
    /\ cli = [NoCli EXCEPT !.pc = "start"]

NextSurface ==
    \/ McpScan
    \/ McpToolsCall
    \/ McpShutdown
    \/ CliMain

SpecSurface == InitSurface /\ [][NextSurface]_vars

(***************************************************************************)
(* The indexer: IndexProject and IndexFile                                 *)
(***************************************************************************)
batchSize == 10

codeExts ==
    { <<".", "g", "o">>,
      <<".", "p", "y">>,
      <<".", "j", "s">>,
      <<".", "t", "s">>,
      <<".", "j", "s", "x">>,
      <<".", "t", "s", "x">>,
      <<".", "j", "a", "v", "a">>,
      <<".", "c">>,
      <<".", "c", "p", "p">>,
      <<".", "h">>,
      <<".", "h", "p", "p">>,
      <<".", "r", "s">>,
      <<".", "r", "b">>,
      <<".", "p", "h", "p">>,
      <<".", "c", "s">>,
      <<".", "s", "w", "i", "f", "t">>,
      <<".", "k", "t">>,
      <<".", "s", "c", "a", "l", "a">> }
isCodeFile(ext) == ToLower(ext) \in codeExts

\* filepath.WalkDir over the listing of the project, which is in lexical
\* order: the paths of the code files.
WalkDir(project) ==
    LET code == SelectSeq(project, LAMBDA f : isCodeFile(Ext(f.path)))
    IN  [k \in 1..Len(code) |-> code[k].path]

\* The file of the project at path.
FileAt(project, path) == project[CHOOSE k \in 1..Len(project) : project[k].path = path]

\* The vector of the model for a text: a function of the text.  What
\* EmbedBatch may return for the texts: an error, a vector of the store's
\* dimension for each text, or vectors the last of which is of another
\* dimension.
Embed(text) == Vec(<<1, Digest(text) % 4>>)

EmbedBatch(texts) ==
    { [err |-> <<"failed to embed text">>, embeddings |-> <<>>],
      [err |-> <<>>, embeddings |-> [k \in 1..Len(texts) |-> Embed(texts[k])]],
      [err |-> <<>>,
       embeddings |-> [k \in 1..Len(texts) |->
                          IF k = Len(texts) THEN Vec(<<1>>) ELSE Embed(texts[k])]] }

\* One thing IndexFile has done for the file of the index `file` of files.
Event(step, file, ok, chunks, embeddings) ==
    [step |-> step, file |-> file, ok |-> ok, chunks |-> chunks, embeddings |-> embeddings]

\* A mutant of SkipFile: the first file that fails ends the run.
SkipFileAborts(ix) == [ix EXCEPT !.pc = "returned", !.err = <<"failed to index">>]

\* IndexFile has returned an error: the warning is printed and the loop goes
\* on with the next file.
SkipFile(ix) == [ix EXCEPT !.pc = "file", !.file = @ + 1, !.chunks = <<>>, !.at = 0]

\* IndexFile has returned chunks: they are counted, and the loop goes on.
FileDone(ix, n) ==
    [ix EXCEPT !.pc = "file", !.file = @ + 1, !.chunks = <<>>, !.at = 0,
               !.totalChunks = @ + n]

\* What the actions of the indexer leave alone besides the store's call
\* records.
IndexFrame ==
    /\ UNCHANGED <<db, dims, mu>>
    /\ UNCHANGED <<runVars, mergeVars, classifyVars, chunkVars, otherVars>>

\* IndexProject up to its call of vectorStore.Clear().
IndexProject ==
    /\ indexer.pc = "start"
    /\ calls[indexer.goroutine].pc = "idle"
    /\ calls' = [calls EXCEPT ![indexer.goroutine] = ClearCall]
    /\ indexer' = [indexer EXCEPT !.pc = "clear"]
    /\ UNCHANGED events
    /\ IndexFrame

\* Clear has returned: the walk, which may fail.
IndexProjectWalk ==
    /\ indexer.pc = "clear"
    /\ calls[indexer.goroutine].pc = "returned"
    /\ calls' = [calls EXCEPT ![indexer.goroutine] = IdleCall]
    /\ IF calls[indexer.goroutine].err # <<>>
       THEN indexer' = [indexer EXCEPT !.pc = "returned",
                                       !.err = <<"failed to clear vector store">>]
       ELSE \E walked \in BOOLEAN :
               indexer' = IF walked
                          THEN [indexer EXCEPT !.pc = "file", !.file = 1,
                                               !.files = WalkDir(indexer.project)]
                          ELSE [indexer EXCEPT !.pc = "returned",
                                               !.err = <<"failed to walk directory">>]
    /\ UNCHANGED events
    /\ IndexFrame

\* IndexFile up to its loop: the file is read, which may fail, and chunked.
IndexFile ==
    /\ indexer.pc = "file"
    /\ indexer.file <= Len(indexer.files)
    /\ \E read \in BOOLEAN :
          IF ~read
          THEN /\ indexer' = SkipFile(indexer)
               /\ events' = Append(events, Event("read", indexer.file, FALSE, <<>>, <<>>))
          ELSE LET path == indexer.files[indexer.file]
                   chunks == ChunkFile(path, FileAt(indexer.project, path).lines)
               IN  /\ indexer' = IF Len(chunks) = 0 THEN FileDone(indexer, 0)
                                  ELSE [indexer EXCEPT !.pc = "embed", !.chunks = chunks,
                                                       !.at = 0]
                   /\ events' = Append(events, Event("read", indexer.file, TRUE, <<>>, <<>>))
    /\ UNCHANGED calls
    /\ IndexFrame

\* The batch of IndexFile's loop that starts after `at` chunks.
Batch(ix) == SubSeq(ix.chunks, ix.at + 1, Min(ix.at + batchSize, Len(ix.chunks)))

\* A round of IndexFile's loop up to its call of vectorStore.InsertBatch.
IndexFileEmbed ==
    /\ indexer.pc = "embed"
    /\ calls[indexer.goroutine].pc = "idle"
    /\ LET batch == Batch(indexer)
           texts == [j \in 1..Len(batch) |-> batch[j].Content]
       IN  \E out \in EmbedBatch(texts) :
              IF out.err # <<>>
              THEN /\ indexer' = SkipFile(indexer)
                   /\ events' = Append(events, Event("embed", indexer.file, FALSE, batch, <<>>))
                   /\ UNCHANGED calls
              ELSE /\ indexer' = [indexer EXCEPT !.pc = "insert"]
                   /\ events' = Append(events,
                                       Event("embed", indexer.file, TRUE, batch, out.embeddings))
                   /\ calls' = [calls EXCEPT ![indexer.goroutine] =
                                                 InsertBatchCall(batch, out.embeddings)]
    /\ IndexFrame

\* InsertBatch has returned: the round ends, and the loop or the file with
\* it.
IndexFileInsert ==
    /\ indexer.pc = "insert"
    /\ calls[indexer.goroutine].pc = "returned"
    /\ calls' = [calls EXCEPT ![indexer.goroutine] = IdleCall]
    /\ LET call == calls[indexer.goroutine]
       IN  IF call.err # <<>>
           THEN /\ indexer' = SkipFile(indexer)
                /\ events' = Append(events, Event("insert", indexer.file, FALSE,
                                                  call.chunks, call.embeddings))
           ELSE /\ indexer' = IF indexer.at + batchSize < Len(indexer.chunks)
                               THEN [indexer EXCEPT !.pc = "embed", !.at = @ + batchSize]
                               ELSE FileDone(indexer, Len(indexer.chunks))
                /\ events' = Append(events, Event("insert", indexer.file, TRUE,
                                                  call.chunks, call.embeddings))
    /\ IndexFrame

\* The files are done: the stats are set and IndexProject returns nil.
IndexProjectReturn ==
    /\ indexer.pc = "file"
    /\ indexer.file > Len(indexer.files)
    /\ indexer' = [indexer EXCEPT !.pc = "returned",
                                  !.stats = [TotalFiles |-> Len(indexer.files),
                                             TotalChunks |-> indexer.totalChunks]]
    /\ UNCHANGED <<events, calls>>
    /\ IndexFrame

\* The goroutines: IndexProject runs on the first, searches on the second.
IndexerGoroutine == "indexer"
SearcherGoroutine == "searcher"

\* A Python file of eleven functions, a Python file that repeats its first
\* function, a Go file, and a file that is not code.
ElevenDefs ==
    << <<"d", "e", "f", " ", "f", "0", "(", "a", ")", ":">>,
       <<" ", " ", " ", " ", "r", "e", "t", "u", "r", "n", " ", "0">>,
       <<"d", "e", "f", " ", "f", "1", "(", "a", ")", ":">>,
       <<" ", " ", " ", " ", "r", "e", "t", "u", "r", "n", " ", "1">>,
       <<"d", "e", "f", " ", "f", "2", "(", "a", ")", ":">>,
       <<" ", " ", " ", " ", "r", "e", "t", "u", "r", "n", " ", "2">>,
       <<"d", "e", "f", " ", "f", "3", "(", "a", ")", ":">>,
       <<" ", " ", " ", " ", "r", "e", "t", "u", "r", "n", " ", "3">>,
       <<"d", "e", "f", " ", "f", "4", "(", "a", ")", ":">>,
       <<" ", " ", " ", " ", "r", "e", "t", "u", "r", "n", " ", "4">>,
       <<"d", "e", "f", " ", "f", "5", "(", "a", ")", ":">>,
       <<" ", " ", " ", " ", "r", "e", "t", "u", "r", "n", " ", "5">>,
       <<"d", "e", "f", " ", "f", "6", "(", "a", ")", ":">>,
       <<" ", " ", " ", " ", "r", "e", "t", "u", "r", "n", " ", "6">>,
       <<"d", "e", "f", " ", "f", "7", "(", "a", ")", ":">>,
       <<" ", " ", " ", " ", "r", "e", "t", "u", "r", "n", " ", "7">>,
       <<"d", "e", "f", " ", "f", "8", "(", "a", ")", ":">>,
       <<" ", " ", " ", " ", "r", "e", "t", "u", "r", "n", " ", "8">>,
       <<"d", "e", "f", " ", "f", "9", "(", "a", ")", ":">>,
       <<" ", " ", " ", " ", "r", "e", "t", "u", "r", "n", " ", "9">>,
       <<"d", "e", "f", " ", "f", "x", "(", "a", ")", ":">>,
       <<" ", " ", " ", " ", "r", "e", "t", "u", "r", "n", " ", "x">> >>
PathA == <<"s", "r", "c", "/", "a", ".", "p", "y">>
PathB == <<"s", "r", "c", "/", "b", ".", "p", "y">>
PathC == <<"s", "r", "c", "/", "c", ".", "g", "o">>
PathReadme == <<"R", "E", "A", "D", "M", "E", ".", "m", "d">>
Project ==
    << [path |-> PathReadme, lines |-> << <<"#", " ", "n", "o", "t", "e", "s">> >>],
       [path |-> PathA, lines |-> ElevenDefs],
       [path |-> PathB, lines |-> SubSeq(ElevenDefs, 1, 2)],
       [path |-> PathC, lines |-> << <<"p", "a", "c", "k", "a", "g", "e", " ", "p">>, <<"f", "u", "n", "c", " ", "f", "(", ")", "{", "}">> >>] >>

\* The rows a run before this one has left in the database file.
StoredRows ==
    {Row(NewChunk(PathG, ContentA, "function", <<"a">>, "go", 5, 6), encodeEmbedding(Vec(<<0, 1>>)))}

SearchMenu == {SearchCall(Vec(<<1, 0>>), 1)}

\* The chunks of the files a walk of the project finds, file by file.
RECURSIVE ChunksOf(_, _)
ChunksOf(project, files) ==
    IF files = <<>> THEN <<>>
    ELSE ChunkFile(Head(files), FileAt(project, Head(files)).lines)
            \o ChunksOf(project, Tail(files))
WalkChunks == ChunksOf(Project, WalkDir(Project))

\* The rows a run leaves in which nothing fails: of the chunks of one id the
\* last one, with the embedding of its content.
FullRows ==
    LET chunks == WalkChunks
    IN  {Row(chunks[k], encodeEmbedding(Embed(chunks[k].Content))) :
            k \in {j \in 1..Len(chunks) :
                      \A l \in (j + 1)..Len(chunks) : chunks[l].ID # chunks[j].ID}}

\* The rows of the chunks of the walk, each with the embedding of its content.
WalkRows ==
    LET chunks == WalkChunks
    IN  {Row(chunks[k], encodeEmbedding(Embed(chunks[k].Content))) : k \in 1..Len(chunks)}

\* IndexProject is called on a store that is new, holds the rows a run on
\* another project has left, or holds the rows of a run on this project,
\* while another goroutine searches.
InitIndex ==
    /\ RunIdle
    /\ MergeIdle
    /\ ClassifyIdle
    /\ ChunkIdle
    /\ OtherIdle
    /\ db \in {{}, StoredRows, FullRows}
    /\ dims = Dimensions
    /\ mu = FreeMutex
    /\ calls = [g \in {IndexerGoroutine, SearcherGoroutine} |-> IdleCall]
    /\ indexer = [NoIndexer EXCEPT !.pc = "start", !.goroutine = IndexerGoroutine,
                                   !.project = Project, !.stored = db]
    /\ events = <<>>

NextIndex ==
    \/ IndexProject
    \/ IndexProjectWalk
    \/ IndexFile
    \/ IndexFileEmbed
    \/ IndexFileInsert
    \/ IndexProjectReturn
    \/ StoreCall(SearchMenu)
    \/ InsertBatchLock
    \/ Lock
    \/ RLock
    \/ InsertBatch
    \/ Search
    \/ Clear
    \/ Unlock
    \/ StoreReturn

SpecIndex == InitIndex /\ [][NextIndex]_vars

(***************************************************************************)
(* Properties of the executor and the runner                               *)
(***************************************************************************)
PathActionTypes == {ActionReadFile, ActionCreateFile, ActionEditFile, ActionDeleteFile}

\* The resolved absolute form of path does not start with the cleaned root.
EscapesRoot(e, path) == ~HasPrefix(Abs(e, path), Clean(e.projectRoot))

Last(seq) == seq[Len(seq)]

\* The tasks whose round of Run's loop is over, with their executions.
Finished == 1..Len(executions)

\* C1: every read_file, create_file, edit_file or delete_file action whose
\* resolved path does not start with the cleaned project root has an
\* unsuccessful result that carries the path-safety error.
C1_PathSafety ==
    \A k \in 1..Len(actions) :
        (actions[k].Type \in PathActionTypes /\ EscapesRoot(executor, actions[k].Path))
            => /\ ~results[k].Success
               /\ Contains(results[k].Error, <<" escapes project root">>)

\* C2: a complete or fail action is the last action of its task, the loop
\* is left with it and no chat request follows it; a finished task is
\* completed exactly when its last action is a successful complete, and is
\* blocked otherwise.
C2_TerminalEndsLoop ==
    /\ \A k \in 1..Len(actions) :
          IsTerminal(actions[k]) => (k = Len(actions) /\ pc # "loop" /\ chats = k)
    /\ \A j \in Finished :
          LET ex == executions[j]
              n == Len(ex.Actions)
          IN  plan.Tasks[j].Status =
                 IF n > 0 /\ ex.Actions[n].Type = ActionComplete /\ ex.Results[n].Success
                 THEN TaskStatusCompleted
                 ELSE TaskStatusBlocked

\* A task has finished on a complete action and is completed.
C2_Witness ==
    \E j \in Finished :
        /\ Len(executions[j].Actions) > 0
        /\ Last(executions[j].Actions).Type = ActionComplete
        /\ plan.Tasks[j].Status = TaskStatusCompleted

\* C3: a non-terminal action with an unsuccessful result is the last action
\* of its task, the loop is left with it and no chat request follows it, and
\* the task is blocked.
C3_FailureEndsLoop ==
    /\ \A k \in 1..Len(actions) :
          (~IsTerminal(actions[k]) /\ ~results[k].Success)
              => (k = Len(actions) /\ pc # "loop" /\ chats = k)
    /\ \A j \in Finished :
          LET ex == executions[j]
              n == Len(ex.Actions)
          IN  (n > 0 /\ ~IsTerminal(ex.Actions[n]) /\ ~ex.Results[n].Success)
                 => (ex.Failed /\ plan.Tasks[j].Status = TaskStatusBlocked)

\* A task has finished, blocked, on an unsuccessful non-terminal action that
\* followed a successful one.
C3_Witness ==
    \E j \in Finished :
        /\ Len(executions[j].Actions) > 1
        /\ ~IsTerminal(Last(executions[j].Actions))
        /\ ~Last(executions[j].Results).Success
        /\ plan.Tasks[j].Status = TaskStatusBlocked

\* Every action of the execution is non-terminal and succeeded.
AllSucceeded(ex) ==
    \A k \in 1..Len(ex.Actions) : ~IsTerminal(ex.Actions[k]) /\ ex.Results[k].Success

\* C4: the loop of a task makes at most MaxIterations chat requests, 25
\* when the option is zero or negative; a task whose MaxIterations actions
\* are all non-terminal and successful is blocked with the failure message
\* "max iterations reached before completion".
C4_IterationCap ==
    pc # "start" =>
        /\ maxIterations = (IF opts.MaxIterations <= 0 THEN 25 ELSE opts.MaxIterations)
        /\ chats <= maxIterations
        /\ Len(actions) <= maxIterations
        /\ \A j \in Finished :
              LET ex == executions[j]
              IN  (Len(ex.Actions) = maxIterations /\ AllSucceeded(ex))
                     => /\ ex.Failed /\ ~ex.Completed
                        /\ ex.FailureMsg = <<"max iterations reached before completion">>
                        /\ plan.Tasks[j].Status = TaskStatusBlocked

\* A run without the option has blocked a task after 25 successful actions.
C4_Witness ==
    /\ opts.MaxIterations <= 0
    /\ \E j \in Finished :
          /\ Len(executions[j].Actions) = 25
          /\ AllSucceeded(executions[j])
          /\ executions[j].FailureMsg = <<"max iterations reached before completion">>
          /\ plan.Tasks[j].Status = TaskStatusBlocked

ActionTypes(acts) == [k \in 1..Len(acts) |-> acts[k].Type]

\* C5: in dry-run mode the file system stays as it was, no process is
\* spawned, every result's list of changed files is empty, and a task whose
\* actions are one create_file and then complete is completed.
C5_DryRun ==
    executor.dryRun =>
        /\ fs = InitialFiles
        /\ spawned = 0
        /\ \A k \in 1..Len(results) : results[k].FilesChanged = <<>>
        /\ \A j \in Finished :
              /\ \A k \in 1..Len(executions[j].Results) :
                    executions[j].Results[k].FilesChanged = <<>>
              /\ ActionTypes(executions[j].Actions) = <<ActionCreateFile, ActionComplete>>
                    => (executions[j].Completed /\ plan.Tasks[j].Status = TaskStatusCompleted)

\* A dry run has finished a task of one create_file and then complete.
C5_Witness ==
    /\ executor.dryRun
    /\ \E j \in Finished :
          /\ ActionTypes(executions[j].Actions) = <<ActionCreateFile, ActionComplete>>
          /\ plan.Tasks[j].Status = TaskStatusCompleted

\* Some edit's old_text does not occur in the content as the edits before it
\* have left it.
RECURSIVE SomeEditMisses(_, _)
SomeEditMisses(content, edits) ==
    /\ edits # <<>>
    /\ \/ ~Contains(content, Head(edits).OldText)
       \/ SomeEditMisses(ReplaceFirst(content, Head(edits).OldText, Head(edits).NewText),
                         Tail(edits))

\* An edit_file action on a file that can be read, one of whose edits misses.
EditMisses(e, files, action) ==
    /\ action.Type = ActionEditFile
    /\ ReadFile(files, Abs(e, action.Path)).err = <<>>
    /\ SomeEditMisses(ReadFile(files, Abs(e, action.Path)).data, action.Edits)

EditMissResult(result) ==
    ~result.Success /\ Contains(result.Error, <<"old_text not found">>)

\* The round of executeTask's loop that is taken has executed an action.
Executed == Len(actions') = Len(actions) + 1

\* A finished task whose last result is the edit-miss failure is blocked.
EditMissBlocks ==
    \A j \in Finished :
        LET ex == executions[j]
        IN  (Len(ex.Actions) > 0 /\ Last(ex.Actions).Type = ActionEditFile
                /\ EditMissResult(Last(ex.Results)))
               => plan.Tasks[j].Status = TaskStatusBlocked

\* C6 as stated: every edit_file action one of whose edits misses the
\* file's content has an unsuccessful result whose error contains
\* "old_text not found", and its task ends blocked.
C6_EditMissOriginal ==
    /\ [][Executed => (EditMisses(executor, fs, Last(actions'))
                          => EditMissResult(Last(results')))]_vars
    /\ []EditMissBlocks

\* C6, amended: every edit_file action whose path passes the path check and
\* one of whose edits misses the file's content has an unsuccessful result
\* whose error contains "old_text not found", and its task ends blocked.
C6_EditMiss ==
    /\ [][Executed => ((EditMisses(executor, fs, Last(actions'))
                          /\ checkPath(executor, Last(actions').Path) = <<>>)
                          => EditMissResult(Last(results')))]_vars
    /\ []EditMissBlocks

\* A task is blocked on an edit_file action whose second edit missed the
\* content the first edit had left.
C6_Witness ==
    \E j \in Finished :
        /\ Len(executions[j].Actions) > 0
        /\ Last(executions[j].Actions).Type = ActionEditFile
        /\ Len(Last(executions[j].Actions).Edits) = 2
        /\ EditMissResult(Last(executions[j].Results))
        /\ plan.Tasks[j].Status = TaskStatusBlocked

\* The content after every edit of a list has replaced the first occurrence
\* of its old_text, in order.
RECURSIVE Edited(_, _)
Edited(content, edits) ==
    IF edits = <<>> THEN content
    ELSE Edited(ReplaceFirst(content, Head(edits).OldText, Head(edits).NewText), Tail(edits))

\* The files other than the one at abs are as they were.
OthersKept(before, after, abs) ==
    /\ DOMAIN after \ {Resolve(abs)} = DOMAIN before \ {Resolve(abs)}
    /\ \A f \in DOMAIN before \ {Resolve(abs)} : after[f] = before[f]

\* C29: edit_file is all-or-nothing.  When the action fails (path check, no
\* edits, unreadable file, an old_text that is not found) the file is as it
\* was and files_changed is empty; the file is written only when every edit
\* applies, once, with the result of all the edits.
C29_EditAllOrNothing ==
    [][(Executed /\ Last(actions').Type = ActionEditFile) =>
          LET action == Last(actions')
              result == Last(results')
              abs == Abs(executor, action.Path)
          IN  /\ ~result.Success => (fs' = fs /\ result.FilesChanged = <<>>)
              /\ fs' # fs =>
                    /\ result.Success
                    /\ result.FilesChanged = <<action.Path>>
                    /\ checkPath(executor, action.Path) = <<>>
                    /\ action.Edits # <<>>
                    /\ ~EditMisses(executor, fs, action)
                    /\ IsFile(fs, abs) /\ IsFile(fs', abs)
                    /\ fs'[Resolve(abs)] = Edited(fs[Resolve(abs)], action.Edits)
                    /\ OthersKept(fs, fs', abs)]_vars

\* A run that writes has executed an edit_file action whose first edit
\* applies to the file and whose second edit does not: the action failed and
\* the file is as it was.
C29_Witness ==
    /\ ~opts.DryRun
    /\ pc = "returned"
    /\ actions # <<>>
    /\ Last(actions) = Action(ActionEditFile, PathInside, EditHitMiss, <<>>)
    /\ EditMissResult(Last(results))
    /\ Last(results).FilesChanged = <<>>
    /\ Contains(fs[Resolve(Abs(executor, PathInside))], EditHitMiss[1].OldText)
    /\ fs = InitialFiles

\* The status changes the data model allows.
LinearTransitions ==
    { <<TaskStatusPending, TaskStatusInProgress>>,
      <<TaskStatusInProgress, TaskStatusCompleted>>,
      <<TaskStatusInProgress, TaskStatusBlocked>>,
      <<TaskStatusInProgress, TaskStatusPending>> }

\* C7: every change of a task's status is pending to in_progress, or
\* in_progress to completed, blocked or pending.
C7_LinearStatus ==
    [][\A j \in 1..Len(plan.Tasks) :
          (j <= Len(plan'.Tasks) /\ plan'.Tasks[j].Status # plan.Tasks[j].Status)
              => <<plan.Tasks[j].Status, plan'.Tasks[j].Status>> \in LinearTransitions]_vars

\* The blocked counter of a breakdown, as one who reads its counters finds
\* it: the struct has no such field.
BlockedCounter(tb) == IF "Blocked" \in DOMAIN tb THEN tb.Blocked ELSE 0

\* C8: once the plan exists, the counters of the breakdown add up to
\* total_tasks: completed + in_progress + pending + blocked.
C8_CountersSum ==
    pc \in {"tasks", "loop", "returned", "done"} =>
        plan.Completed + plan.InProgress + plan.Pending + BlockedCounter(plan)
            = plan.TotalTasks

\* Whether a line of the response yields a task, and the description it yields.
DescriptionOf(line) == TrimSpace(FindTask(TrimSpace(line)).group)
YieldsTask(line) == FindTask(TrimSpace(line)).ok /\ DescriptionOf(line) # <<>>
\* The lines of a response that yield a task, in the order they appear.
AcceptedLines(lines) == SelectSeq(lines, YieldsTask)

\* C23: parsing an LLM plan response gives the tasks the ids 1, 2, ..., n
\* with no gap and no repeat, in the order in which the accepted lines
\* appear; when no line yields a task, parsing fails and Run returns an
\* error before any task is started or any action is executed.
C23_PlanIds ==
    LET accepted == AcceptedLines(response)
    IN  /\ pc \in {"tasks", "loop", "returned", "done"} =>
              /\ accepted # <<>>
              /\ Len(plan.Tasks) = Len(accepted)
              /\ \A k \in 1..Len(plan.Tasks) :
                    /\ plan.Tasks[k].ID = k
                    /\ plan.Tasks[k].Description = DescriptionOf(accepted[k])
        /\ (pc # "start" /\ accepted = <<>>) =>
              /\ pc = "error"
              /\ plan = NoPlan
              /\ task = NoTask
              /\ taskIdx = 0
              /\ chats = 0
              /\ actions = <<>>
              /\ results = <<>>
              /\ executions = <<>>
              /\ fs = InitialFiles
              /\ spawned = 0

\* A run has ended whose plan came from a response with a line that is
\* neither blank nor a task before a line that is a task.
C23_Witness ==
    /\ pc = "done"
    /\ \E j, k \in 1..Len(response) :
          /\ j < k
          /\ TrimSpace(response[j]) # <<>>
          /\ ~YieldsTask(response[j])
          /\ YieldsTask(response[k])

\* C24: every core error while an MCP tool call is served (indexing
\* failure, agent construction or run failure, unknown tool) comes back as a
\* tool result with isError true and the message as its content, and the
\* process goes on; the command line exits non-zero only on argument and
\* usage errors.
C24_CoreErrorsAreResults ==
    /\ server.cause # "" =>
          /\ server.resp.Error = NoRPCError
          /\ server.resp.Result.IsError
          /\ server.resp.Result.Content # ""
    /\ (cli.pc = "exited" /\ cli.exit # 0) => cli.cause = "usage"

\* C25: the execution record of a task holds every action the executor ran
\* for it, in order, with results[i] the result of actions[i] and as many
\* results as actions, also when the loop ends on a failed LLM call or on a
\* response that is no action.
C25_RecordHoldsActions ==
    pc = "returned" =>
        /\ execResult.Actions = actions
        /\ execResult.Results = results
        /\ Len(execResult.Actions) = Len(execResult.Results)

\* The actions of a record with their results.
Steps(acts, ress) ==
    [j \in 1..Min(Len(acts), Len(ress)) |-> [action |-> acts[j], result |-> ress[j]]]

RECURSIVE StepsOf(_)
StepsOf(execs) ==
    IF execs = <<>> THEN <<>>
    ELSE Steps(Head(execs).Actions, Head(execs).Results) \o StepsOf(Tail(execs))

\* What the run has executed so far: the steps of the records Run holds and
\* the steps of the task executeTask is in.
History ==
    StepsOf(executions)
        \o (IF pc \in {"loop", "returned"} THEN Steps(actions, results) ELSE <<>>)

\* A step that reports success and is of a type that changes files.
Changes(step) ==
    /\ step.result.Success
    /\ step.action.Type \in {ActionCreateFile, ActionEditFile, ActionDeleteFile, ActionRunCommand}

\* Step k reads the path step j has changed, and no step between them
\* changes a file.
ReadsAfter(h, j, k) ==
    /\ j < k
    /\ Changes(h[j])
    /\ h[k].action.Type = ActionReadFile
    /\ h[k].action.Path = h[j].action.Path
    /\ \A m \in (j + 1)..(k - 1) : ~Changes(h[m])

\* What a read after a successful change returns: the content created; the
\* content a read right before the edit returned, with the edits applied;
\* an error after a delete.
SeesChange(h, j, k) ==
    CASE h[j].action.Type = ActionCreateFile ->
            h[k].result.Success /\ h[k].result.Output = h[j].action.Content
      [] h[j].action.Type = ActionEditFile ->
            /\ h[k].result.Success
            /\ (j > 1 /\ h[j - 1].action.Type = ActionReadFile
                      /\ h[j - 1].action.Path = h[j].action.Path /\ h[j - 1].result.Success)
                 => h[k].result.Output
                        = ApplyEdits(h[j - 1].result.Output, h[j].action.Edits, <<>>).content
      [] h[j].action.Type = ActionDeleteFile -> ~h[k].result.Success
      [] OTHER -> TRUE

\* The tasks run one after another in plan order: the records are those of
\* the first tasks of the plan, the tasks after the current one are as the
\* plan was parsed, and the task in executeTask is the next of the plan.
OneAfterAnother ==
    pc \in {"tasks", "loop", "returned", "done"} =>
        /\ Len(executions) = (IF pc = "done" THEN Len(plan.Tasks) ELSE taskIdx - 1)
        /\ \A k \in 1..Len(executions) : executions[k].Task.ID = plan.Tasks[k].ID
        /\ \A k \in (taskIdx + 1)..Len(plan.Tasks) :
              plan.Tasks[k].Status \in {TaskStatusPending, TaskStatusCompleted}
                 /\ plan.Tasks[k].Details = <<>>
        /\ pc \in {"loop", "returned"} => task.ID = plan.Tasks[taskIdx].ID

\* C28 as stated: the tasks run strictly one after another in plan order,
\* and the effects of successful actions are visible to what follows: after
\* a create_file or edit_file on a path a following read_file returns the
\* content written, and after a delete_file a following read_file fails.
C28_EffectsVisibleOriginal ==
    /\ OneAfterAnother
    /\ LET h == History
       IN  \A j, k \in 1..Len(h) : ReadsAfter(h, j, k) => SeesChange(h, j, k)

\* C28, amended: the same of a run that is not a dry run; in a dry run the
\* file actions report success and change nothing.
C28_EffectsVisible ==
    /\ OneAfterAnother
    /\ ~opts.DryRun =>
          LET h == History
          IN  \A j, k \in 1..Len(h) : ReadsAfter(h, j, k) => SeesChange(h, j, k)
    /\ opts.DryRun => fs = InitialFiles

\* In a run that is not a dry run the second task has read what the first
\* task's edit has written.
C28_Witness ==
    /\ ~opts.DryRun
    /\ Len(executions) = 1
    /\ pc = "loop"
    /\ LET h == History
       IN  \E j, k \in 1..Len(h) :
              /\ ReadsAfter(h, j, k)
              /\ h[j].action.Type = ActionEditFile
              /\ j <= Len(executions[1].Actions)
              /\ k > Len(executions[1].Actions)

\* C30: when Run has returned without an error there is exactly one
\* execution record per task of the plan, in plan order, each with exactly
\* one of Completed and Failed set, and every task is completed or blocked.
C30_RunResult ==
    pc = "done" =>
        /\ Len(executions) = Len(plan.Tasks)
        /\ \A k \in 1..Len(plan.Tasks) :
              /\ executions[k].Task.ID = plan.Tasks[k].ID
              /\ executions[k].Task.Description = plan.Tasks[k].Description
              /\ executions[k].Completed # executions[k].Failed
              /\ plan.Tasks[k].Status \in {TaskStatusCompleted, TaskStatusBlocked}
              /\ (plan.Tasks[k].Status = TaskStatusCompleted) = executions[k].Completed

\* Run has returned a plan of two tasks or more, one completed and one
\* blocked.
C30_Witness ==
    /\ pc = "done"
    /\ Len(plan.Tasks) >= 2
    /\ \E j, k \in 1..Len(plan.Tasks) :
          /\ plan.Tasks[j].Status = TaskStatusCompleted /\ executions[j].Completed
          /\ plan.Tasks[k].Status = TaskStatusBlocked /\ executions[k].Failed

(***************************************************************************)
(* Properties of the merger                                                *)
(***************************************************************************)
\* A file's tokens as the budget rule words them: the sum of its chunks'
\* token estimates, or 500 when it has no chunks.
StatedFileTokens(fileResult) ==
    IF Len(fileResult.Chunks) = 0 THEN 500 ELSE SumTokens(fileResult.Chunks)

RECURSIVE SumStatedTokens(_)
SumStatedTokens(files) ==
    IF files = <<>> THEN 0
    ELSE StatedFileTokens(Head(files)) + SumStatedTokens(Tail(files))

\* C9: the tokens of the files Merge returns add up to at most the budget,
\* and TotalTokens is that sum.
C9_MergerBudget ==
    mergePc = "returned" =>
        /\ SumStatedTokens(mergeOut.Files) <= mergeIn.maxTokens
        /\ mergeOut.TotalTokens = SumStatedTokens(mergeOut.Files)

\* C10: a returned file that is in the RAG results and in the indexer's
\* files has a relevance that is at least the relevance the RAG results
\* alone give it and at least the relevance the indexer's files alone give
\* it.
C10_MergerMonotone ==
    mergePc = "returned" =>
        \A k \in 1..Len(mergeOut.Files) :
            LET f == mergeOut.Files[k]
                ragOnly == FileMap(mergeIn.ragResults, <<>>).fileMap
                indexerOnly == FileMap(<<>>, mergeIn.indexerFiles).fileMap
            IN  (f.Path \in DOMAIN ragOnly /\ f.Path \in DOMAIN indexerOnly)
                   => /\ f.Relevance >= ragOnly[f.Path].Relevance
                      /\ f.Relevance >= indexerOnly[f.Path].Relevance

\* The paths of the RAG results and then of the indexer's files, each at its
\* first occurrence: the order in which Merge inserts them into its map.
RECURSIVE FirstOccurrences(_, _)
FirstOccurrences(paths, seen) ==
    IF paths = <<>> THEN seen
    ELSE IF \E k \in 1..Len(seen) : seen[k] = Head(paths)
    THEN FirstOccurrences(Tail(paths), seen)
    ELSE FirstOccurrences(Tail(paths), Append(seen, Head(paths)))

InsertionOrder(ragResults, indexerFiles) ==
    FirstOccurrences([k \in 1..Len(ragResults) |-> ragResults[k].Chunk.FilePath]
                         \o indexerFiles, <<>>)

InsertionIndex(ragResults, indexerFiles, path) ==
    LET order == InsertionOrder(ragResults, indexerFiles)
    IN  CHOOSE k \in 1..Len(order) : order[k] = path

\* C11: every call of Merge with the inputs of this call returns what this
\* call returned, and returned files of equal relevance are in the order in
\* which their paths were first inserted (RAG results, then indexer files).
C11_MergeDeterministic ==
    mergePc = "returned" =>
        /\ \A other \in Merge(mergeIn.ragResults, mergeIn.indexerFiles, mergeIn.maxTokens) :
              other = mergeOut
        /\ \A a, b \in 1..Len(mergeOut.Files) :
              (a < b /\ mergeOut.Files[a].Relevance = mergeOut.Files[b].Relevance)
                 => InsertionIndex(mergeIn.ragResults, mergeIn.indexerFiles, mergeOut.Files[a].Path)
                      < InsertionIndex(mergeIn.ragResults, mergeIn.indexerFiles, mergeOut.Files[b].Path)

\* The tokens the budget loop counts for the first k files of a list.
RECURSIVE PrefixTokens(_, _)
PrefixTokens(files, k) ==
    IF k = 0 THEN 0 ELSE PrefixTokens(files, k - 1) + FileTokens(files[k])

\* The files of the map Merge built, in one of the relevance-sorted orders.
SortedLists ==
    LET m == FileMap(mergeIn.ragResults, mergeIn.indexerFiles)
    IN  {[k \in DOMAIN order |-> m.fileMap[order[k]]] : order \in SortedOrders(m.fileMap)}

HasSymbolToken(text) == hasSymbols(text)
HasConceptWord(text) == containsAny(ToLower(text), conceptWords)
HasBehaviorWord(text) == containsAny(ToLower(text), behaviorWords)
HasFilePathToken(text) == hasFilePath(ToLower(text))

\* C12: a query with a symbol token, no concept word and no behaviour word
\* is classified structural ("UserModel" and "callers of parseConfig" are
\* among the queries).
C12_SymbolIsStructural ==
    classifyPc = "returned" =>
        ((HasSymbolToken(query) /\ ~HasConceptWord(query) /\ ~HasBehaviorWord(query))
            => queryType = StructuralQuery)

\* C13: a query with a symbol token or a file path, and a concept or a
\* behaviour word, is classified hybrid ("how does UserModel handle auth" is
\* among the queries).
C13_MixedIsHybrid ==
    classifyPc = "returned" =>
        (((HasSymbolToken(query) \/ HasFilePathToken(query))
             /\ (HasConceptWord(query) \/ HasBehaviorWord(query)))
            => queryType = HybridQuery)

(***************************************************************************)
(* Properties of the vector store                                          *)
(***************************************************************************)
\* The calls that have left the critical section of their method, or have
\* returned without entering it.
Returning(method) ==
    {g \in DOMAIN calls : calls[g].pc \in {"leaving", "returned"} /\ calls[g].method = method}

\* The lists differ in length, or a vector has not the store's dimension.
BadVectors(c) ==
    \/ Len(c.chunks) # Len(c.embeddings)
    \/ \E k \in 1..Len(c.embeddings) : Len(c.embeddings[k]) # dims

InsertFailsCleanly(c) ==
    /\ BadVectors(c) => c.err # <<>>
    /\ c.err # <<>> => db = c.before

\* C14: an insert or insert_batch whose lists differ in length, or one of
\* whose vectors has not the store's dimension, fails; after a failed one
\* the table is as it was before the call.
C14_InsertAllOrNothing ==
    \A g \in Returning("insert") \cup Returning("insert_batch") : InsertFailsCleanly(calls[g])

\* An insert_batch of two chunks has failed on its second vector, after its
\* first chunk had been written in the transaction.
C14_Witness ==
    \E g \in Returning("insert_batch") :
        /\ Len(calls[g].chunks) = 2
        /\ Len(calls[g].embeddings) = 2
        /\ Len(calls[g].embeddings[1]) = dims
        /\ Len(calls[g].embeddings[2]) # dims
        /\ Row(calls[g].chunks[1], encodeEmbedding(calls[g].embeddings[1])) \notin calls[g].before
        /\ calls[g].err # <<>>
        /\ db = calls[g].before

\* The chunk is the last of its id in the list.
LastOfItsID(chunks, k) == \A j \in (k + 1)..Len(chunks) : chunks[j].ID # chunks[k].ID

\* C15: the table holds at most one row per id, and chunks of equal content
\* have equal ids; after a successful insert the row of each id is the one
\* of the latest chunk of that id (its path, lines and vector); count()
\* is the number of distinct ids in the table.
C15_UpsertByID ==
    /\ \A r1, r2 \in db : r1.ID = r2.ID => r1 = r2
    /\ \A r1, r2 \in db : r1.Content = r2.Content => r1.ID = r2.ID
    /\ \A g \in Returning("insert") \cup Returning("insert_batch") :
          LET c == calls[g]
          IN  c.err = <<>> =>
                 \A k \in 1..Len(c.chunks) :
                    /\ \A j \in 1..Len(c.chunks) :
                          c.chunks[j].Content = c.chunks[k].Content
                             => c.chunks[j].ID = c.chunks[k].ID
                    /\ LastOfItsID(c.chunks, k)
                          => \A r \in db :
                                r.ID = c.chunks[k].ID
                                   => r = Row(c.chunks[k], encodeEmbedding(c.embeddings[k]))
                    /\ \E r \in db : r.ID = c.chunks[k].ID
    /\ \A g \in Returning("count") : calls[g].count = Cardinality({r.ID : r \in db})

\* A successful insert has replaced the row of a chunk of the same content
\* in another file.
C15_Witness ==
    \E g \in Returning("insert") \cup Returning("insert_batch") :
        /\ calls[g].err = <<>>
        /\ \E k \in 1..Len(calls[g].chunks) :
              /\ \E old \in calls[g].before :
                    /\ old.ID = calls[g].chunks[k].ID
                    /\ old.FilePath # calls[g].chunks[k].FilePath
                    /\ old \notin db
              /\ Row(calls[g].chunks[k], encodeEmbedding(calls[g].embeddings[k])) \in db

\* The score Search gives a row.
ScoreOf(row, queryEmbedding) ==
    cosineSimilarity(queryEmbedding, decodeEmbedding(row.embedding, dims).vec)

\* C16: search(q, K) with K >= 0 succeeds and returns min(K, count())
\* results, each a stored chunk with its score, in non-increasing order of
\* score; no stored chunk that is not returned has a score above a returned
\* one.
C16_SearchTopK ==
    \A g \in Returning("search") :
        LET c == calls[g]
            n == Len(c.results)
        IN  /\ c.err = <<>>
            /\ n = Min(c.topK, Cardinality(db))
            /\ \A k \in 1..n :
                  \E row \in db : /\ c.results[k].Chunk = ScanChunk(row)
                                  /\ c.results[k].Score = ScoreOf(row, c.queryEmbedding)
            /\ \A a, b \in 1..n : a # b => c.results[a].Chunk.ID # c.results[b].Chunk.ID
            /\ \A k \in 1..(n - 1) : c.results[k].Score >= c.results[k + 1].Score
            /\ \A row \in db :
                  (\A k \in 1..n : c.results[k].Chunk.ID # row.ID)
                     => \A k \in 1..n : ScoreOf(row, c.queryEmbedding) <= c.results[k].Score

\* A search for the best of two stored chunks has returned the one of the
\* higher score.
C16_Witness ==
    \E g \in Returning("search") :
        /\ calls[g].topK = 1
        /\ Len(calls[g].results) = 1
        /\ Cardinality(db) = 2
        /\ \E row \in db : ScoreOf(row, calls[g].queryEmbedding) < calls[g].results[1].Score

\* The goroutine is between the lock and the unlock of its method.
InsideStore(g) == calls[g].pc \in {"inside", "leaving"}

\* C17: of two goroutines inside the store's critical section, neither is
\* in insert, insert_batch, delete or clear: both are in search or count.
C17_ReadersWriterLock ==
    \A g, h \in DOMAIN calls :
        (g # h /\ InsideStore(g) /\ InsideStore(h))
            => (calls[g].op \in ReadOps /\ calls[h].op \in ReadOps)

\* A search and a count are inside together, after an insert had been inside.
C17_Witness ==
    \E g, h \in DOMAIN calls :
        /\ InsideStore(g) /\ calls[g].op = "search"
        /\ InsideStore(h) /\ calls[h].op = "count"
        /\ db # {}

(***************************************************************************)
(* Properties of the chunkers                                              *)
(***************************************************************************)
\* C20: every chunk a chunker returns has start_line <= end_line, content
\* that is not empty, and a token estimate of len(content) / 4 that is at
\* least 1.
C20_ChunkInvariants ==
    chunkPc = "returned" =>
        \A k \in 1..Len(chunkOut) :
            /\ chunkOut[k].StartLine <= chunkOut[k].EndLine
            /\ chunkOut[k].Content # <<>>
            /\ chunkOut[k].TokenCount = Len(chunkOut[k].Content) \div 4
            /\ chunkOut[k].TokenCount >= 1

(***************************************************************************)
(* Properties of the indexer                                               *)
(***************************************************************************)
\* The batches the run has committed, in order: those whose InsertBatch has
\* returned to IndexFile without an error, and the one that InsertBatch has
\* committed and not yet returned from.
CommittedBatches ==
    LET call == calls[indexer.goroutine]
    IN  SelectSeq(events, LAMBDA e : e.step = "insert" /\ e.ok)
           \o (IF call.op = "insert_batch" /\ call.pc \in {"leaving", "returned"}
                  /\ call.err = <<>>
               THEN <<Event("insert", indexer.file, TRUE, call.chunks, call.embeddings)>>
               ELSE <<>>)

BatchRows(batch) ==
    {Row(batch.chunks[k], encodeEmbedding(batch.embeddings[k])) : k \in 1..Len(batch.chunks)}

UnionOfBatches(batches, k) == UNION {BatchRows(batches[j]) : j \in 1..k}

\* The table after the run's clear and its first k committed batches: a
\* chunk replaces the row of its id.
RECURSIVE TableAfter(_, _)
TableAfter(batches, k) ==
    IF k = 0 THEN {}
    ELSE ExecRows(TableAfter(batches, k - 1), batches[k].chunks, batches[k].embeddings,
                  dims, 1).tx

\* C18 as stated: the rows a search scores while IndexProject runs are
\* exactly the union of the first k batches the run has committed, for some
\* k >= 0.
C18_SearchSeesPrefixOriginal ==
    \A g \in Returning("search") :
        \E k \in 0..Len(CommittedBatches) :
            calls[g].before = UnionOfBatches(CommittedBatches, k)

\* C18, amended: the rows a search scores while IndexProject runs are the
\* rows the store held before the run, or exactly the table after the run's
\* clear and the first k batches it has committed, for some k >= 0, a chunk
\* replacing the row of its id: never part of a batch, and never a later
\* batch without the earlier ones.
C18_SearchSeesPrefix ==
    \A g \in Returning("search") :
        \/ calls[g].before = indexer.stored
        \/ \E k \in 0..Len(CommittedBatches) :
              calls[g].before = TableAfter(CommittedBatches, k)

\* A search has scored the table of the first k batches, which is not empty
\* and had lost a row to a chunk of the same id in another file, while the
\* run has committed a later batch.
C18_Witness ==
    \E g \in Returning("search") :
        \E k \in 1..(Len(CommittedBatches) - 1) :
            /\ calls[g].before = TableAfter(CommittedBatches, k)
            /\ calls[g].before # UnionOfBatches(CommittedBatches, k)
            /\ calls[g].before # TableAfter(CommittedBatches, Len(CommittedBatches))

\* C19: after a failure of IndexFile's read, embedding or insertion for a
\* file, nothing more is embedded or inserted for that file; every file the
\* loop has passed was processed; and a run in which a file failed returns
\* nil after it has processed every file.
C19_FileFailureIsLocal ==
    /\ \A p \in 1..Len(events) :
          ~events[p].ok =>
             /\ \A q \in (p + 1)..Len(events) : events[q].file # events[p].file
             /\ indexer.pc = "returned" \/ indexer.file > events[p].file
    /\ \A f \in 1..Len(indexer.files) :
          (f < indexer.file \/ indexer.pc = "returned")
             => \E p \in 1..Len(events) : events[p].file = f /\ events[p].step = "read"
    /\ (indexer.pc = "returned" /\ \E p \in 1..Len(events) : ~events[p].ok)
          => (indexer.err = <<>> /\ indexer.stats.TotalFiles = Len(indexer.files))

\* A run has returned nil after the second batch of a file failed to be
\* inserted, and a batch of a later file was inserted after that.
C19_Witness ==
    /\ indexer.pc = "returned"
    /\ indexer.err = <<>>
    /\ \E p, q, r \in 1..Len(events) :
          /\ p < q /\ q < r
          /\ events[p].step = "insert" /\ events[p].ok
          /\ events[q].step = "insert" /\ ~events[q].ok /\ events[q].file = events[p].file
          /\ events[r].step = "insert" /\ events[r].ok /\ events[r].file > events[q].file

\* No read, embedding or insertion of the run has failed, and neither the
\* clear nor the walk.
NoFailure == indexer.err = <<>> /\ \A p \in 1..Len(events) : events[p].ok

LineRange(chunk) == chunk.StartLine..chunk.EndLine

\* C21: a chunk whose content is longer than 4,000 characters is replaced by
\* at least 2 sub-chunks, each of at most 100 lines, consecutive ones
\* overlapping by 10 lines, named name_part1, name_part2, ..., whose line
\* ranges together cover every line of the chunk.
C21_SplitLargeChunk ==
    (chunkPc = "returned" /\ Len(JoinLines(chunkIn.lines)) > 4000) =>
        /\ Len(chunkOut) >= 2
        /\ \A k \in 1..Len(chunkOut) :
              /\ Cardinality(LineRange(chunkOut[k])) <= 100
              /\ chunkOut[k].SymbolName = SymbolBig \o <<"_", "p", "a", "r", "t">> \o Itoa(k)
        /\ \A k \in 1..(Len(chunkOut) - 1) :
              Cardinality(LineRange(chunkOut[k]) \cap LineRange(chunkOut[k + 1])) = 10
        /\ UNION {LineRange(chunkOut[k]) : k \in 1..Len(chunkOut)}
              = chunkIn.start..(chunkIn.start + Len(chunkIn.lines) - 1)

(***************************************************************************)
(* Properties of the encoding of vectors                                   *)
(***************************************************************************)
\* C22: the encoding of a vector is 4 bytes for each component, the 32 bits
\* of the component least significant byte first; decoding it with the
\* vector's length gives a vector of the same bits, NaNs and signed zeros
\* included, and decoding it with another dimension fails.
C22_EmbeddingRoundTrip ==
    codecPc = "returned" =>
        /\ Len(codecOut.data) = Len(codecIn.vec) * 4
        /\ \A k \in 1..Len(codecIn.vec) :
              LET f == codecIn.vec[k]
                  b == SubSeq(codecOut.data, 4 * k - 3, 4 * k)
              IN  /\ \A j \in 1..4 : b[j] \in 0..255
                  /\ b[1] + 256 * b[2] + 65536 * b[3] = (f.exponent % 2) * 8388608 + f.mantissa
                  /\ b[4] = f.sign * 128 + f.exponent \div 2
        /\ codecIn.dims = Len(codecIn.vec)
              => (codecOut.err = <<>> /\ codecOut.vec = codecIn.vec)
        /\ codecIn.dims # Len(codecIn.vec) => codecOut.err # <<>>

\* A vector of a signalling NaN and the negative zero has been encoded and
\* decoded.
C22_Witness ==
    /\ codecPc = "returned"
    /\ codecIn.vec = <<SignallingNaN, NegativeZero>>
    /\ codecOut.err = <<>>
    /\ Len(codecOut.vec) = 2

=============================================================================
